---- MODULE Spec2Model ----
(***************************************************************************)
(* A model of the string_id interning store: map_database (a hash table of *)
(* sorted, singly linked bucket chains whose nodes carry their string      *)
(* inline), the generic basic_database::insert_prefix, and the             *)
(* thread_safe_database adapter.                                           *)
(*                                                                         *)
(* Memory is modelled explicitly.  The heap is a sequence of nodes; a      *)
(* node's address is its index, 0 is nullptr.  A node's inline character   *)
(* array is the field str, terminator included.  A `node*&` (the prev      *)
(* member of insert_pos_t) is modelled by the address of the node whose    *)
(* next field it refers to, or 0 when it refers to the list's head_.       *)
(***************************************************************************)
EXTENDS Integers, Sequences, FiniteSets, TLC

\* ------------------------------------------------------------------ bounds
MaxHash    == 2      \* hashes are drawn from 0..MaxHash
MaxLen     == 2      \* longest caller buffer and longest stored string
MaxBuckets == 8      \* no rehash is started that would exceed this size
NThreads   == 2      \* threads that share a thread_safe_database
MaxCalls   == 3      \* calls the threads make on it, all together
NStrings   == 1000   \* strings of the end-to-end load
MaxExtra   == 3      \* lengths asked of to_string beyond its array's size
MaxTries   == 3      \* an installed handler asks for a retry below this count
StateBits  == 4      \* bits of the generator's counter
MaxGenCalls == 3     \* calls made on a generator

NUL        == 0
Chars      == {1, 2}                       \* two distinct non-NUL characters
Hashes     == 0 .. MaxHash
\* the constructor's arguments <<size, max_load_factor>>, the load factor as
\* a fraction <<numerator, denominator>>
Configs    == {<<1, <<4, 1>>>>, <<1, <<2, 1>>>>, <<1, <<1, 4>>>>}

RECURSIVE StringsOfLen(_)
StringsOfLen(n) ==
    IF n = 0 THEN {<<>>}
    ELSE {<<c>> \o s : c \in Chars, s \in StringsOfLen(n - 1)}

\* the caller's character buffers: no NUL inside, not NUL-terminated
Buffers == UNION {StringsOfLen(n) : n \in 0 .. MaxLen}

\* ------------------------------------------------------- <cstring> helpers
\* the character a `const char*` points at; a terminated array ends in NUL
Deref(s) == IF s = <<>> THEN NUL ELSE Head(s)

\* the C string an array holds: the characters before the first NUL
RECURSIVE CString(_)
CString(mem) ==
    IF Deref(mem) = NUL THEN <<>>
    ELSE <<Head(mem)>> \o CString(Tail(mem))

\* strncpy(dest, src, n): the n characters written to dest; copying stops at
\* a NUL of src and the remainder of dest is filled with NUL
RECURSIVE strncpy(_, _)
strncpy(src, n) ==
    IF n = 0 THEN <<>>
    ELSE IF Deref(src) = NUL THEN [i \in 1 .. n |-> NUL]
    ELSE <<Head(src)>> \o strncpy(Tail(src), n - 1)

\* strncmp(s1, s2, n): compares at most n characters and stops after a NUL
RECURSIVE strncmp(_, _, _)
strncmp(s1, s2, n) ==
    IF n = 0 THEN 0
    ELSE IF Deref(s1) # Deref(s2) THEN Deref(s1) - Deref(s2)
    ELSE IF Deref(s1) = NUL THEN 0
    ELSE strncmp(Tail(s1), Tail(s2), n - 1)

\* ----------------------------------------------------------- insert_status
collision  == 0
new_string == 1
old_string == 2

\* strequal(prefix, str, length, other_str); prefix and other_str terminated
RECURSIVE strequal(_, _, _, _)
strequal(prefix, str, length, other_str) ==
    IF Deref(prefix) # NUL
    THEN IF Deref(prefix) # Deref(other_str) THEN FALSE
         ELSE strequal(Tail(prefix), str, length, Tail(other_str))
    ELSE strncmp(str, other_str, length) = 0

\* ------------------------------------------------------ node_list and node
nullptr == 0
aborted == -1        \* a failed assert

\* node::node(str, length, h, next)
node(str, length, h, next) ==
    [length |-> length, hash |-> h, next |-> next,
     str |-> strncpy(str, length) \o <<NUL>>]

\* mutant: the suffix is copied to the start of the array (no dest += length_prefix)
node_prefix_no_advance(prefix, length_prefix, str, length_string, h, next) ==
    [length |-> length_prefix + length_string, hash |-> h, next |-> next,
     str |-> strncpy(str, length_string) \o <<NUL>>
             \o [i \in 1 .. length_prefix |-> NUL]]

\* node::node(prefix, length_prefix, str, length_string, h, next)
node_prefix(prefix, length_prefix, str, length_string, h, next) ==
    [length |-> length_prefix + length_string, hash |-> h, next |-> next,
     str |-> strncpy(prefix, length_prefix)
             \o strncpy(str, length_string) \o <<NUL>>]

\* node::get_str(): the character array behind the node header
get_str(n) == n.str

\* the two insert_pos_t constructors
insert_pos_t_cur(cur) ==
    [exists |-> TRUE, prev |-> nullptr, next |-> nullptr, cur |-> cur]

insert_pos_t_prev(prev, next) ==
    [exists |-> FALSE, prev |-> prev, next |-> next, cur |-> nullptr]

\* mutant: `while (cur && cur->hash < hash)`, an equal hash is never found
RECURSIVE insert_pos_loop_less(_, _, _, _)
insert_pos_loop_less(heap, hash, cur, prev) ==
    IF cur # nullptr /\ heap[cur].hash < hash
    THEN insert_pos_loop_less(heap, hash, heap[cur].next, cur)
    ELSE insert_pos_t_prev(prev, cur)

\* node_list::insert_pos: the loop, from (cur, prev)
RECURSIVE insert_pos_loop(_, _, _, _)
insert_pos_loop(heap, hash, cur, prev) ==
    IF cur # nullptr /\ heap[cur].hash <= hash
    THEN IF heap[cur].hash < hash
         THEN insert_pos_loop(heap, hash, heap[cur].next, cur)
         ELSE insert_pos_t_cur(cur)
    ELSE insert_pos_t_prev(prev, cur)

insert_pos(heap, head_, hash) == insert_pos_loop(heap, hash, head_, nullptr)

\* the assignment `pos.prev = n` through the node*& of an insert position
assign_prev(heap, head_, pos, n) ==
    IF pos.exists THEN [heap |-> heap, head_ |-> head_]
    ELSE IF pos.prev = nullptr THEN [heap |-> heap, head_ |-> n]
    ELSE [heap |-> [heap EXCEPT ![pos.prev].next = n], head_ |-> head_]

\* mutant: a differing string replaces the stored one
node_list_insert_overwrite(heap, head_, hash, str, length) ==
    LET pos == insert_pos(heap, head_, hash) IN
    IF pos.exists
    THEN IF strncmp(str, get_str(heap[pos.cur]), length) = 0
         THEN [heap |-> heap, head_ |-> head_, status |-> old_string]
         ELSE [heap |-> [heap EXCEPT ![pos.cur].str = strncpy(str, length) \o <<NUL>>,
                                     ![pos.cur].length = length],
               head_ |-> head_, status |-> collision]
    ELSE LET n   == Len(heap) + 1
             mem == Append(heap, node(str, length, hash, pos.next))
             w   == assign_prev(mem, head_, pos, n)
         IN [heap |-> w.heap, head_ |-> w.head_, status |-> new_string]

\* node_list::insert
node_list_insert(heap, head_, hash, str, length) ==
    LET pos == insert_pos(heap, head_, hash) IN
    IF pos.exists
    THEN [heap |-> heap, head_ |-> head_,
          status |-> IF strncmp(str, get_str(heap[pos.cur]), length) = 0
                     THEN old_string ELSE collision]
    ELSE LET n   == Len(heap) + 1
             mem == Append(heap, node(str, length, hash, pos.next))
             w   == assign_prev(mem, head_, pos, n)
         IN [heap |-> w.heap, head_ |-> w.head_, status |-> new_string]

\* node_list::find_node
RECURSIVE find_node_loop(_, _, _)
find_node_loop(heap, cur, h) ==
    IF heap[cur].hash < h
    THEN IF heap[cur].next = nullptr THEN aborted
         ELSE find_node_loop(heap, heap[cur].next, h)
    ELSE IF heap[cur].hash = h THEN cur ELSE aborted

find_node(heap, head_, h) ==
    IF head_ = nullptr THEN aborted ELSE find_node_loop(heap, head_, h)

\* node_list::lookup: the address of the found node (its string is inline)
node_list_lookup(heap, head_, h) == find_node(heap, head_, h)

\* mutant: on a collision the stored string is replaced by prefix + suffix
node_list_insert_prefix_at_replace(heap, head_, prefix_node, hash, str, length) ==
    LET pos == insert_pos(heap, head_, hash) IN
    IF pos.exists
    THEN IF strequal(get_str(heap[prefix_node]), str, length,
                     get_str(heap[pos.cur]))
         THEN [heap |-> heap, head_ |-> head_, status |-> old_string]
         ELSE LET n == node_prefix(get_str(heap[prefix_node]),
                                   heap[prefix_node].length,
                                   str, length, hash, heap[pos.cur].next)
              IN [heap |-> [heap EXCEPT ![pos.cur] = n], head_ |-> head_,
                  status |-> collision]
    ELSE LET n   == Len(heap) + 1
             mem == Append(heap,
                       node_prefix(get_str(heap[prefix_node]),
                                   heap[prefix_node].length,
                                   str, length, hash, pos.next))
             w   == assign_prev(mem, head_, pos, n)
         IN [heap |-> w.heap, head_ |-> w.head_, status |-> new_string]

\* node_list::insert_prefix after `auto prefix_node = prefix_bucket.find_node(prefix)`
node_list_insert_prefix_at(heap, head_, prefix_node, hash, str, length) ==
    LET pos == insert_pos(heap, head_, hash) IN
    IF pos.exists
    THEN [heap |-> heap, head_ |-> head_,
          status |-> IF strequal(get_str(heap[prefix_node]), str, length,
                                 get_str(heap[pos.cur]))
                     THEN old_string ELSE collision]
    ELSE LET n   == Len(heap) + 1
             mem == Append(heap,
                       node_prefix(get_str(heap[prefix_node]),
                                   heap[prefix_node].length,
                                   str, length, hash, pos.next))
             w   == assign_prev(mem, head_, pos, n)
         IN [heap |-> w.heap, head_ |-> w.head_, status |-> new_string]

\* node_list::insert_prefix, called on the list with head_
node_list_insert_prefix(heap, head_, prefix_head, prefix, hash, str, length) ==
    LET prefix_node == find_node(heap, prefix_head, prefix)
    IN node_list_insert_prefix_at(heap, head_, prefix_node, hash, str, length)

\* find_node in a build with NDEBUG, where assert expands to nothing:
\* `while (cur->hash < h) cur = cur->next; return cur;`.  Reading cur->hash
\* through a null pointer is undefined (segv)
segv == -2

RECURSIVE find_node_ndebug_loop(_, _, _)
find_node_ndebug_loop(heap, cur, h) ==
    IF cur = nullptr THEN segv
    ELSE IF heap[cur].hash < h
    THEN find_node_ndebug_loop(heap, heap[cur].next, h)
    ELSE cur

\* what find_node can give in the build: with assertions the node or a
\* failed assertion; with NDEBUG the node the loop stops at, and after the
\* undefined read a crash or any node
find_node_build(heap, head_, h, NDEBUG) ==
    IF ~NDEBUG THEN {find_node(heap, head_, h)}
    ELSE LET cur == find_node_ndebug_loop(heap, head_, h)
         IN IF cur = segv THEN {segv} \cup (1 .. Len(heap)) ELSE {cur}

\* mutant: rehash links every node at the front of its new list
RECURSIVE node_list_rehash_loop_front(_, _, _, _)
node_list_rehash_loop_front(heap, buckets, cur, size) ==
    IF cur = nullptr THEN [heap |-> heap, buckets |-> buckets]
    ELSE LET next == heap[cur].next
             b    == (heap[cur].hash % size) + 1
         IN node_list_rehash_loop_front([heap EXCEPT ![cur].next = buckets[b]],
                                        [buckets EXCEPT ![b] = cur],
                                        next, size)

\* node_list::rehash: the loop, from cur; buckets is the new array
RECURSIVE node_list_rehash_loop(_, _, _, _)
node_list_rehash_loop(heap, buckets, cur, size) ==
    IF cur = nullptr THEN [heap |-> heap, buckets |-> buckets]
    ELSE LET next == heap[cur].next
             b    == (heap[cur].hash % size) + 1
             pos  == insert_pos(heap, buckets[b], heap[cur].hash)
             w    == assign_prev(heap, buckets[b], pos, cur)
         IN node_list_rehash_loop([w.heap EXCEPT ![cur].next = pos.next],
                                  [buckets EXCEPT ![b] = w.head_],
                                  next, size)

\* mutant: the emptied list keeps its head_
node_list_rehash_keeps_head(heap, buckets, head_, size) ==
    LET r == node_list_rehash_loop(heap, buckets, head_, size)
    IN [heap |-> r.heap, buckets |-> r.buckets, head_ |-> head_]

\* node_list::rehash: the list is empty afterwards (head_ = nullptr)
node_list_rehash(heap, buckets, head_, size) ==
    LET r == node_list_rehash_loop(heap, buckets, head_, size)
    IN [heap |-> r.heap, buckets |-> r.buckets, head_ |-> nullptr]

\* the nodes of a chain, from cur
RECURSIVE chain(_, _)
chain(heap, cur) ==
    IF cur = nullptr THEN <<>> ELSE <<cur>> \o chain(heap, heap[cur].next)

\* node_list::~node_list: the addresses passed to operator delete
node_list_dtor(heap, head_) ==
    LET c == chain(heap, head_) IN {c[i] : i \in 1 .. Len(c)}

\* ------------------------------------------------------------ map_database
\* static_cast<std::size_t>(std::floor(n * f)) for the fraction f
floor_mul(n, f) == (n * f[1]) \div f[2]

growth_factor == 2

\* map_database::map_database(size, max_load_factor)
map_database(size, max_load_factor) ==
    [heap             |-> <<>>,
     freed            |-> {},
     buckets_         |-> [i \in 1 .. size |-> nullptr],
     no_items_        |-> 0,
     no_buckets_      |-> size,
     max_load_factor_ |-> max_load_factor,
     next_resize_     |-> floor_mul(size, max_load_factor)]

\* map_database::rehash: the iterations lo .. hi of the for loop over the old
\* lists (list = old[lo], ...), in order, on st = the heap, the old and the
\* new bucket array.  The range is halved, and st is read on entry, so that
\* the evaluation of a long loop does not nest one level per list.
RECURSIVE map_rehash_range(_, _, _, _)
map_rehash_range(st, lo, hi, new_size) ==
    IF lo > hi \/ lo > Len(st.old) THEN st
    ELSE IF lo = hi
    THEN LET r == node_list_rehash(st.heap, st.buckets, st.old[lo], new_size)
         IN [heap |-> r.heap, old |-> [st.old EXCEPT ![lo] = r.head_],
             buckets |-> r.buckets]
    ELSE LET mid == (lo + hi) \div 2
         IN map_rehash_range(map_rehash_range(st, lo, mid, new_size),
                             mid + 1, hi, new_size)

\* map_database::rehash: the for loop, from list i to the end of the old array
map_rehash_loop(heap, old, buckets, i, no_buckets, new_size) ==
    map_rehash_range([heap |-> heap, old |-> old, buckets |-> buckets],
                     i, no_buckets, new_size)

\* mutant: rehash that leaves no_buckets_ at the old size
map_rehash_stale_size(db) ==
    LET new_size == growth_factor * db.no_buckets_
        r == map_rehash_loop(db.heap, db.buckets_,
                             [i \in 1 .. new_size |-> nullptr], 1,
                             db.no_buckets_, new_size)
    IN [db EXCEPT !.heap         = r.heap,
                  !.buckets_     = r.buckets,
                  !.next_resize_ = floor_mul(new_size, db.max_load_factor_)]

\* map_database::rehash; buckets_.reset runs ~node_list on every old list
map_rehash(db) ==
    LET new_size == growth_factor * db.no_buckets_
        r == map_rehash_loop(db.heap, db.buckets_,
                             [i \in 1 .. new_size |-> nullptr], 1,
                             db.no_buckets_, new_size)
        deleted == UNION {node_list_dtor(r.heap, r.old[i]) : i \in 1 .. Len(r.old)}
    IN [db EXCEPT !.heap         = r.heap,
                  !.freed        = @ \cup deleted,
                  !.buckets_     = r.buckets,
                  !.no_buckets_  = new_size,
                  !.next_resize_ = floor_mul(new_size, db.max_load_factor_)]

\* mutant: the table grows only at twice the resize threshold
needs_rehash_late(db) == db.no_items_ >= 2 * db.next_resize_

\* the growth check that opens insert and insert_prefix
needs_rehash(db) == db.no_items_ + 1 >= db.next_resize_

map_grow(db) == IF needs_rehash(db) THEN map_rehash(db) ELSE db

\* `buckets_[hash % no_buckets_]` as an index into the bucket sequence
bucket_of(db, hash) == (hash % db.no_buckets_) + 1

\* buckets_[hash % no_buckets_].insert(hash, str, length)
map_bucket_insert(db, hash, str, length) ==
    LET b == bucket_of(db, hash)
        r == node_list_insert(db.heap, db.buckets_[b], hash, str, length)
    IN [db |-> [db EXCEPT !.heap = r.heap, !.buckets_[b] = r.head_],
        status |-> r.status]

\* buckets_[hash % no_buckets_].insert_prefix(buckets_[prefix % no_buckets_], ...)
map_bucket_insert_prefix(db, hash, prefix, str, length) ==
    LET b == bucket_of(db, hash)
        r == node_list_insert_prefix(db.heap, db.buckets_[b],
                                     db.buckets_[bucket_of(db, prefix)],
                                     prefix, hash, str, length)
    IN [db |-> [db EXCEPT !.heap = r.heap, !.buckets_[b] = r.head_],
        status |-> r.status]

\* mutant: the item count rises on every call
map_count_always(r) ==
    [db |-> [r.db EXCEPT !.no_items_ = @ + 1], status |-> r.status]

\* `if (status == insert_status::new_string) ++no_items_; return status;`
map_count(r) ==
    [db |-> IF r.status = new_string
            THEN [r.db EXCEPT !.no_items_ = @ + 1] ELSE r.db,
     status |-> r.status]

\* mutant: grow-after-insert, the table grows once a call has added an item
map_insert_grow_after(db, hash, str, length) ==
    LET r == map_count(map_bucket_insert(db, hash, str, length))
    IN IF r.status = new_string
       THEN [db |-> map_grow(r.db), status |-> r.status] ELSE r

\* map_database::insert
map_insert(db, hash, str, length) ==
    map_count(map_bucket_insert(map_grow(db), hash, str, length))

\* map_database::insert_prefix
map_insert_prefix(db, hash, prefix, str, length) ==
    map_count(map_bucket_insert_prefix(map_grow(db), hash, prefix, str, length))

\* map_database::lookup: the address of the node whose inline string is returned
map_lookup(db, hash) ==
    node_list_lookup(db.heap, db.buckets_[bucket_of(db, hash)], hash)

\* the C string behind the pointer that lookup returns
lookup_string(db, hash) == CString(get_str(db.heap[map_lookup(db, hash)]))

\* ------------------------------------------------------------------- state
VARIABLES
    heap,              \* the nodes allocated with operator new, by address
    freed,             \* the addresses passed to operator delete
    buckets_,          \* head_ of every node_list of the bucket array
    no_items_,
    no_buckets_,
    max_load_factor_,
    next_resize_,
    ctor_size,         \* the size the constructor was called with
    inserted,          \* per hash: what the caller inserted as new_string
    last,              \* the call that ran last and what it returned
    \* thread_safe_database<Database> and the threads that call it
    database,          \* the wrapped Database
    mutex_,            \* the thread that owns mutex_, 0 when it is unlocked
    terminated,        \* std::terminate was called
    pc,                \* per thread: where it is in its call
    op,                \* per thread: the call it is making
    tmp,               \* per thread: the locals of the call
    hist,              \* per thread: the calls that returned, with their results
    calls,             \* the number of calls started
    shadow,            \* the store with every call applied at once, when it locked
    expect,            \* per thread: what its call returns on shadow
    \* the bulk load, the precondition violations and the caller's buffer
    bulk,              \* the end-to-end load: its hash scheme
    ndebug,            \* the build defines NDEBUG (assert expands to nothing)
    fault,             \* how a call that broke a precondition ended
    buffer,            \* the caller's character array
    \* generators and handlers
    counter_,          \* counter_generator: std::atomic<state>
    gen,               \* per thread: its call of a generator (try_generate)
    fmt,               \* the locals of to_string
    collision_h,       \* the current collision handler
    generation_error_h,\* the current generation error handler
    hlog,              \* per thread: what its set and get calls returned
    dummy,             \* the calls made on a dummy_database
    hashed             \* the calls of sid_hash: the build, the call running, the results

dbvars == <<heap, freed, buckets_, no_items_, no_buckets_, max_load_factor_,
            next_resize_>>
tsvars == <<database, mutex_, terminated, pc, op, tmp, hist, calls, shadow, expect>>
xvars  == <<bulk, ndebug, fault, buffer, counter_, gen, fmt, collision_h,
            generation_error_h, hlog, dummy, hashed>>
vars   == <<dbvars, ctor_size, inserted, last, tsvars, xvars>>

\* the store as one value
DB == [heap |-> heap, freed |-> freed, buckets_ |-> buckets_,
       no_items_ |-> no_items_, no_buckets_ |-> no_buckets_,
       max_load_factor_ |-> max_load_factor_, next_resize_ |-> next_resize_]

SetDB(db) ==
    /\ heap' = db.heap
    /\ freed' = db.freed
    /\ buckets_' = db.buckets_
    /\ no_items_' = db.no_items_
    /\ no_buckets_' = db.no_buckets_
    /\ max_load_factor_' = db.max_load_factor_
    /\ next_resize_' = db.next_resize_

InitDB(db) ==
    /\ heap = db.heap
    /\ freed = db.freed
    /\ buckets_ = db.buckets_
    /\ no_items_ = db.no_items_
    /\ no_buckets_ = db.no_buckets_
    /\ max_load_factor_ = db.max_load_factor_
    /\ next_resize_ = db.next_resize_

None == [absent |-> TRUE]

\* an insert or insert_prefix of hash h has returned new_string
Present(h) == ~inserted[h].absent

Threads == 1 .. NThreads

NoCall == [kind |-> "none"]

\* no thread has called the adapter
TSIdle ==
    /\ database = "map_database"
    /\ mutex_ = 0
    /\ terminated = FALSE
    /\ pc = [t \in Threads |-> "idle"]
    /\ op = [t \in Threads |-> NoCall]
    /\ tmp = [t \in Threads |-> NoCall]
    /\ hist = [t \in Threads |-> <<>>]
    /\ calls = 0
    /\ shadow = DB
    /\ expect = [t \in Threads |-> NoCall]

\* the characters str[0 .. length) of a caller's buffer
Bytes(str, length) == SubSeq(str, 1, length)

\* a call is made only while the rehash it may start stays within MaxBuckets
MayCall(db) == needs_rehash(db) => growth_factor * db.no_buckets_ <= MaxBuckets

\* how the string of a call relates to what was inserted under its hash
Rel(hash, bytes) ==
    IF inserted[hash].absent THEN "absent"
    ELSE IF inserted[hash].str = bytes THEN "same" ELSE "different"

\* no call has broken a precondition
NoFault == [kind |-> "none"]

\* no bulk load, no broken precondition, no caller buffer, no call of sid_hash
StoreOnly ==
    /\ bulk = 0
    /\ ndebug = FALSE
    /\ fault = NoFault
    /\ buffer = <<>>
    /\ hashed = <<>>

\* no generator is called and the handlers are the default ones
NoGenerator ==
    /\ counter_ = 0
    /\ gen = <<>>
    /\ fmt = <<>>
    /\ collision_h = "default_collision_handler"
    /\ generation_error_h = "default_generation_error_handler"
    /\ hlog = <<>>
    /\ dummy = <<>>

Init ==
    /\ \E c \in Configs : InitDB(map_database(c[1], c[2])) /\ ctor_size = c[1]
    /\ StoreOnly
    /\ NoGenerator
    /\ inserted = [h \in Hashes |-> None]
    /\ last = [kind |-> "ctor", rel |-> "absent",
               status |-> new_string, rehashed |-> FALSE]
    /\ TSIdle

\* what the caller learns from a call that returned new_string: the bytes it
\* asked to store, the pointer a lookup hands out from then on, and the
\* characters behind that pointer
Learn(db, hash, bytes) ==
    [inserted EXCEPT ![hash] =
        [absent |-> FALSE, str |-> bytes, addr |-> map_lookup(db, hash),
         mem |-> get_str(db.heap[map_lookup(db, hash)])]]

\* insert(hash, str, length), str pointing at a buffer of at least length chars
Insert(hash, str, length) ==
    /\ MayCall(DB)
    /\ \E r \in {map_insert(DB, hash, str, length)} :
       /\ SetDB(r.db)
       /\ inserted' = IF r.status = new_string
                      THEN Learn(r.db, hash, Bytes(str, length)) ELSE inserted
       /\ last' = [kind |-> "insert",
                   rel |-> Rel(hash, Bytes(str, length)),
                   status |-> r.status, rehashed |-> needs_rehash(DB)]
    /\ UNCHANGED <<xvars, ctor_size, tsvars>>

\* insert_prefix(hash, prefix, str, length) for a prefix inserted before
InsertPrefix(hash, prefix, str, length) ==
    /\ MayCall(DB)
    /\ ~inserted[prefix].absent
    /\ Len(inserted[prefix].str) + length <= MaxLen
    /\ \E r \in {map_insert_prefix(DB, hash, prefix, str, length)},
          whole \in {inserted[prefix].str \o Bytes(str, length)} :
       /\ SetDB(r.db)
       /\ inserted' = IF r.status = new_string
                      THEN Learn(r.db, hash, whole) ELSE inserted
       /\ last' = [kind |-> "insert_prefix",
                   rel |-> Rel(hash, whole),
                   status |-> r.status, rehashed |-> needs_rehash(DB)]
    /\ UNCHANGED <<xvars, ctor_size, tsvars>>

\* lookup(hash) for a hash inserted before
Lookup(hash) ==
    /\ ~inserted[hash].absent
    /\ last' = [kind |-> "lookup", rel |-> "same",
                status |-> new_string, rehashed |-> FALSE]
    /\ UNCHANGED <<xvars, dbvars, ctor_size, inserted, tsvars>>

Next ==
    \/ \E hash \in Hashes, str \in Buffers : Insert(hash, str, Len(str))
    \/ \E hash \in Hashes, prefix \in Hashes, str \in Buffers :
          InsertPrefix(hash, prefix, str, Len(str))
    \/ \E hash \in Hashes : Lookup(hash)

Spec == Init /\ [][Next]_vars

\* ---------------------------------------------------- thread_safe_database
\* The adapter derives from Database and overrides the three virtual
\* functions; each constructs a std::lock_guard on mutex_ and calls the
\* Database's function.  The steps of a call are interleaved with the steps
\* of the other threads:
\*   "lock"         constructing the lock_guard (mutex_.lock())
\*   "grow"         map_database: the growth check and rehash
\*   "bucket"       map_database: the call on the bucket's node_list
\*   "count_load", "count_store"   map_database: ++no_items_
\*   "find"         map_database::lookup
\*   "unlock"       returning: the lock_guard is destroyed
\* A Database that does not override insert_prefix runs
\* basic_database::insert_prefix, whose calls of lookup and insert are
\* virtual and so enter the adapter again (op[t].frame says which).

\* the Databases wrapped: map_database, and a store with map_database's
\* insert and lookup that inherits basic_database::insert_prefix
Databases == {"map_database", "inherits_insert_prefix"}

\* the strings the threads insert
TSBuffers == {<<1>>, <<2>>}

\* the constructor arguments of the shared database
TSConfig == <<1, <<2, 1>>>>

\* mutant: lock() that does not wait for the owner to unlock
mutex_lock_no_wait(owner) == TRUE

\* std::mutex::lock returns once no thread owns the mutex
mutex_lock(owner) == owner = 0

\* `prefix_str + str` in basic_database::insert_prefix
default_concat(prefix_str, str) == prefix_str \o CString(str)

\* basic_database::insert_prefix, on a store with map_database's lookup and insert
basic_insert_prefix(db, hash, prefix, str, length) ==
    LET prefix_str == lookup_string(db, prefix)
    IN map_insert(db, hash, default_concat(prefix_str, str),
                  Len(prefix_str) + length)

\* the call of one thread, on the store db, run without interruption
Serial(db, c) ==
    CASE c.kind = "insert" ->
            map_insert(db, c.hash, c.str, c.length)
      [] c.kind = "insert_prefix" ->
            IF database = "map_database"
            THEN map_insert_prefix(db, c.hash, c.prefix, c.str, c.length)
            ELSE basic_insert_prefix(db, c.hash, c.prefix, c.str, c.length)
      [] c.kind = "lookup" ->
            [db |-> db, status |-> new_string, addr |-> map_lookup(db, c.hash)]

\* what a call hands back to its caller
Returned(r, c) ==
    IF c.kind = "lookup" THEN [addr |-> r.addr] ELSE [status |-> r.status]

TSInit ==
    /\ InitDB(map_database(TSConfig[1], TSConfig[2]))
    /\ ctor_size = TSConfig[1]
    /\ inserted = [h \in Hashes |-> None]
    /\ last = [kind |-> "ctor", rel |-> "absent",
               status |-> new_string, rehashed |-> FALSE]
    /\ StoreOnly
    /\ NoGenerator
    /\ database \in Databases
    /\ mutex_ = 0
    /\ terminated = FALSE
    /\ pc = [t \in Threads |-> "idle"]
    /\ op = [t \in Threads |-> NoCall]
    /\ tmp = [t \in Threads |-> NoCall]
    /\ hist = [t \in Threads |-> <<>>]
    /\ calls = 0
    /\ shadow = map_database(TSConfig[1], TSConfig[2])
    /\ expect = [t \in Threads |-> NoCall]

\* the calls a thread may start: lookup and insert_prefix only name hashes
\* whose insert has returned new_string
TSCalls ==
    {[kind |-> "insert", hash |-> h, str |-> b, length |-> Len(b), frame |-> "top"] :
        h \in Hashes, b \in TSBuffers}
    \cup
    {[kind |-> "insert_prefix", hash |-> h, prefix |-> p, str |-> b,
      length |-> Len(b), frame |-> "top"] :
        h \in Hashes, p \in {g \in Hashes : Present(g)}, b \in TSBuffers}
    \cup
    {[kind |-> "lookup", hash |-> h, frame |-> "top"] :
        h \in {g \in Hashes : Present(g)}}

\* a thread calls insert, insert_prefix or lookup of the adapter
TSCall(t, c) ==
    /\ ~terminated
    /\ pc[t] = "idle"
    /\ calls < MaxCalls
    /\ c.kind = "insert_prefix" =>
          Len(inserted[c.prefix].str) + c.length <= MaxLen
    /\ pc' = [pc EXCEPT ![t] = "lock"]
    /\ op' = [op EXCEPT ![t] = c]
    /\ tmp' = [tmp EXCEPT ![t] = NoCall]
    /\ calls' = calls + 1
    /\ UNCHANGED <<xvars, dbvars, ctor_size, inserted, last, database, mutex_,
                   terminated, hist, shadow, expect>>

\* the Database function a thread is in: its own call, or the virtual call
\* basic_database::insert_prefix made for it
Cur(c) ==
    CASE c.frame = "default_lookup" ->
            [kind |-> "lookup", hash |-> c.prefix]
      [] c.frame = "default_insert" ->
            [kind |-> "insert", hash |-> c.hash,
             str |-> default_concat(c.prefix_str, c.str),
             length |-> Len(c.prefix_str) + c.length]
      [] OTHER -> c

\* std::lock_guard<std::mutex> lock(mutex_), then the call of Database::f
TSLock(t) ==
    /\ ~terminated
    /\ pc[t] = "lock"
    /\ mutex_lock(mutex_)
    /\ mutex_' = t
    /\ IF op[t].frame = "top" /\ op[t].kind = "insert_prefix"
          /\ database # "map_database"
       THEN \* basic_database::insert_prefix: `lookup(prefix)`, a virtual call
            /\ op' = [op EXCEPT ![t].frame = "default_lookup"]
            /\ pc' = [pc EXCEPT ![t] = "lock"]
       ELSE /\ op' = op
            /\ pc' = [pc EXCEPT ![t] = IF Cur(op[t]).kind = "lookup"
                                       THEN "find" ELSE "grow"]
    /\ IF op[t].frame = "top"
       THEN \E r \in {Serial(shadow, op[t])} :
               /\ shadow' = r.db
               /\ expect' = [expect EXCEPT ![t] = Returned(r, op[t])]
       ELSE UNCHANGED <<shadow, expect>>
    /\ UNCHANGED <<xvars, dbvars, ctor_size, inserted, last, database, terminated,
                   tmp, hist, calls>>

\* locking a std::mutex that the thread owns is undefined: the thread waits
\* for ever (TSLock stays disabled), or the lock fails and the exception
\* leaves a noexcept function
TSTerminate(t) ==
    /\ ~terminated
    /\ pc[t] = "lock"
    /\ mutex_ = t
    /\ terminated' = TRUE
    /\ UNCHANGED <<xvars, dbvars, ctor_size, inserted, last, database, mutex_, pc, op,
                   tmp, hist, calls, shadow, expect>>

\* `if (no_items_ + 1 >= next_resize_) rehash();`
TSGrow(t) ==
    /\ ~terminated
    /\ pc[t] = "grow"
    /\ SetDB(map_grow(DB))
    /\ pc' = [pc EXCEPT ![t] = "bucket"]
    /\ UNCHANGED <<xvars, ctor_size, inserted, last, database, mutex_, terminated, op,
                   tmp, hist, calls, shadow, expect>>

\* `auto status = buckets_[hash % no_buckets_].insert(...)` or insert_prefix(...)
TSBucket(t) ==
    /\ ~terminated
    /\ pc[t] = "bucket"
    /\ \E c \in {Cur(op[t])} :
       \E r \in {IF c.kind = "insert"
                 THEN map_bucket_insert(DB, c.hash, c.str, c.length)
                 ELSE map_bucket_insert_prefix(DB, c.hash, c.prefix,
                                               c.str, c.length)} :
          /\ SetDB(r.db)
          /\ tmp' = [tmp EXCEPT ![t] = [status |-> r.status]]
          /\ pc' = [pc EXCEPT ![t] = IF r.status = new_string
                                     THEN "count_load" ELSE "unlock"]
    /\ UNCHANGED <<xvars, ctor_size, inserted, last, database, mutex_, terminated, op,
                   hist, calls, shadow, expect>>

\* ++no_items_: the read
TSCountLoad(t) ==
    /\ ~terminated
    /\ pc[t] = "count_load"
    /\ tmp' = [tmp EXCEPT ![t] = [status |-> tmp[t].status, n |-> no_items_]]
    /\ pc' = [pc EXCEPT ![t] = "count_store"]
    /\ UNCHANGED <<xvars, dbvars, ctor_size, inserted, last, database, mutex_,
                   terminated, op, hist, calls, shadow, expect>>

\* ++no_items_: the write
TSCountStore(t) ==
    /\ ~terminated
    /\ pc[t] = "count_store"
    /\ no_items_' = tmp[t].n + 1
    /\ tmp' = [tmp EXCEPT ![t] = [status |-> tmp[t].status]]
    /\ pc' = [pc EXCEPT ![t] = "unlock"]
    /\ UNCHANGED <<xvars, heap, freed, buckets_, no_buckets_, max_load_factor_,
                   next_resize_, ctor_size, inserted, last, database, mutex_,
                   terminated, op, hist, calls, shadow, expect>>

\* `return Database::lookup(hash);`
TSFind(t) ==
    /\ ~terminated
    /\ pc[t] = "find"
    /\ tmp' = [tmp EXCEPT ![t] = [addr |-> map_lookup(DB, Cur(op[t]).hash)]]
    /\ pc' = [pc EXCEPT ![t] = "unlock"]
    /\ UNCHANGED <<xvars, dbvars, ctor_size, inserted, last, database, mutex_,
                   terminated, op, hist, calls, shadow, expect>>

\* the bytes a call asked the store to hold under its hash
Asked(c) ==
    IF c.kind = "insert_prefix"
    THEN inserted[c.prefix].str \o Bytes(c.str, c.length)
    ELSE Bytes(c.str, c.length)

\* the function returns: ~lock_guard unlocks mutex_.  A virtual call made by
\* basic_database::insert_prefix returns into it; a call of the thread
\* returns to the thread
TSUnlock(t) ==
    /\ ~terminated
    /\ pc[t] = "unlock"
    /\ mutex_' = 0
    /\ CASE op[t].frame = "default_lookup" ->
            \* `std::string prefix_str = lookup(prefix);` then the virtual insert
            /\ op' = [op EXCEPT ![t] =
                        [kind |-> "insert_prefix", hash |-> op[t].hash,
                         prefix |-> op[t].prefix, str |-> op[t].str,
                         length |-> op[t].length, frame |-> "default_insert",
                         prefix_str |-> CString(get_str(heap[tmp[t].addr]))]]
            /\ pc' = [pc EXCEPT ![t] = "lock"]
            /\ tmp' = [tmp EXCEPT ![t] = NoCall]
            /\ UNCHANGED <<hist, inserted>>
         [] op[t].frame = "default_insert" ->
            \* thread_safe_database::insert_prefix returns what insert returned
            /\ op' = [op EXCEPT ![t] =
                        [kind |-> "insert_prefix", hash |-> op[t].hash,
                         prefix |-> op[t].prefix, str |-> op[t].str,
                         length |-> op[t].length, frame |-> "top"]]
            /\ pc' = [pc EXCEPT ![t] = "unlock"]
            /\ tmp' = tmp
            /\ UNCHANGED <<hist, inserted>>
         [] OTHER ->
            /\ op' = [op EXCEPT ![t] = NoCall]
            /\ pc' = [pc EXCEPT ![t] = "idle"]
            /\ tmp' = [tmp EXCEPT ![t] = NoCall]
            /\ hist' = [hist EXCEPT ![t] =
                          Append(@, [call |-> op[t], ret |-> tmp[t],
                                     \* another thread was in a call meanwhile
                                     overlapped |-> \E u \in Threads :
                                                       u # t /\ pc[u] # "idle"])]
            /\ inserted' = IF op[t].kind # "lookup" /\ tmp[t].status = new_string
                           THEN Learn(DB, op[t].hash, Asked(op[t]))
                           ELSE inserted
    /\ UNCHANGED <<xvars, dbvars, ctor_size, last, database, terminated, calls,
                   shadow, expect>>

TSNext ==
    \/ \E t \in Threads : \E c \in TSCalls : TSCall(t, c)
    \/ \E t \in Threads : TSLock(t)
    \/ \E t \in Threads : TSTerminate(t)
    \/ \E t \in Threads : TSGrow(t)
    \/ \E t \in Threads : TSBucket(t)
    \/ \E t \in Threads : TSCountLoad(t)
    \/ \E t \in Threads : TSCountStore(t)
    \/ \E t \in Threads : TSFind(t)
    \/ \E t \in Threads : TSUnlock(t)

SpecTS == TSInit /\ [][TSNext]_vars

\* -------------------------------------------- calls that break a precondition
\* lookup(h) and insert_prefix(..., prefix, ...) require that the hash they
\* look up was inserted.  The precondition is stated by the asserts of
\* find_node, which the build keeps or, with NDEBUG, removes.  fault records
\* how a call that broke it ended: a failed assertion, a crash, or a return.
PreConfig == <<1, <<2, 1>>>>

PreInit ==
    /\ InitDB(map_database(PreConfig[1], PreConfig[2]))
    /\ ctor_size = PreConfig[1]
    /\ inserted = [h \in Hashes |-> None]
    /\ last = [kind |-> "ctor", rel |-> "absent",
               status |-> new_string, rehashed |-> FALSE]
    /\ TSIdle
    /\ bulk = 0
    /\ ndebug \in BOOLEAN
    /\ fault = NoFault
    /\ buffer = <<>>
    /\ hashed = <<>>
    /\ NoGenerator

\* the calls that keep the preconditions, while the program runs
PreInsert(hash, str, length) == fault = NoFault /\ Insert(hash, str, length)

PreInsertPrefix(hash, prefix, str, length) ==
    fault = NoFault /\ InsertPrefix(hash, prefix, str, length)

PreLookup(hash) == fault = NoFault /\ Lookup(hash)

\* how a call ended whose find_node gave n
Ended(kind, db, n, status) ==
    IF n = aborted THEN [kind |-> "assert"]
    ELSE IF n = segv THEN [kind |-> "segv"]
    ELSE [kind |-> kind, status |-> status, of |-> db.heap[n].hash,
          bytes |-> CString(get_str(db.heap[n]))]

\* lookup(hash) for a hash that was never inserted
LookupAbsent(hash) ==
    /\ fault = NoFault
    /\ inserted[hash].absent
    /\ \E n \in find_node_build(heap, buckets_[bucket_of(DB, hash)], hash, ndebug) :
          fault' = Ended("lookup", DB, n, new_string)
    /\ last' = [kind |-> "lookup", rel |-> "absent",
                status |-> new_string, rehashed |-> FALSE]
    /\ UNCHANGED <<dbvars, ctor_size, inserted, tsvars, bulk, ndebug, buffer,
                   counter_, gen, fmt, collision_h, generation_error_h, hlog,
                   dummy, hashed>>

\* buckets_[hash % no_buckets_].insert_prefix(...) once find_node gave prefix_node
map_bucket_insert_prefix_at(db, hash, prefix_node, str, length) ==
    LET b == bucket_of(db, hash)
        r == node_list_insert_prefix_at(db.heap, db.buckets_[b], prefix_node,
                                        hash, str, length)
    IN [db |-> [db EXCEPT !.heap = r.heap, !.buckets_[b] = r.head_],
        status |-> r.status]

\* insert_prefix(hash, prefix, str, length) for a prefix that was never inserted
InsertPrefixAbsent(hash, prefix, str, length) ==
    /\ fault = NoFault
    /\ inserted[prefix].absent
    /\ MayCall(DB)
    /\ \E db \in {map_grow(DB)} :
       \E n \in find_node_build(db.heap, db.buckets_[bucket_of(db, prefix)],
                                prefix, ndebug) :
          IF n \in {aborted, segv}
          THEN /\ SetDB(db)
               /\ fault' = Ended("insert_prefix", db, n, new_string)
               /\ inserted' = inserted
          ELSE /\ db.heap[n].length + length <= MaxLen
               /\ \E r \in {map_count(map_bucket_insert_prefix_at(
                                         db, hash, n, str, length))} :
                     /\ SetDB(r.db)
                     /\ fault' = Ended("insert_prefix", db, n, r.status)
                     /\ inserted' =
                          IF r.status = new_string
                          THEN Learn(r.db, hash, lookup_string(r.db, hash))
                          ELSE inserted
    /\ last' = [kind |-> "insert_prefix", rel |-> "absent",
                status |-> new_string, rehashed |-> needs_rehash(DB)]
    /\ UNCHANGED <<ctor_size, tsvars, bulk, ndebug, buffer, counter_, gen, fmt,
                   collision_h, generation_error_h, hlog, dummy, hashed>>

PreNext ==
    \/ \E hash \in Hashes, str \in Buffers : PreInsert(hash, str, Len(str))
    \/ \E hash \in Hashes, prefix \in Hashes, str \in Buffers :
          PreInsertPrefix(hash, prefix, str, Len(str))
    \/ \E hash \in Hashes : PreLookup(hash)
    \/ \E hash \in Hashes : LookupAbsent(hash)
    \/ \E hash \in Hashes, prefix \in Hashes, str \in Buffers :
          InsertPrefixAbsent(hash, prefix, str, Len(str))

SpecPre == PreInit /\ [][PreNext]_vars

OrderConfig == <<1, <<2, 1>>>>
OrderHashes == 0 .. 1

\* mutant: the position of hash is looked up first, the prefix's node after it
insert_prefix_next_pos_first(at, exists) ==
    CASE at = "call" -> "insert_pos"
      [] at = "insert_pos" -> "find_node"
      [] at = "find_node" -> IF exists THEN "strequal" ELSE "node"

\* the statement of node_list::insert_prefix that follows the one at `at`
insert_prefix_next(at, exists) ==
    CASE at = "call" -> "find_node"
      [] at = "find_node" -> "insert_pos"
      [] at = "insert_pos" -> IF exists THEN "strequal" ELSE "node"

OrderInit ==
    /\ InitDB(map_database(OrderConfig[1], OrderConfig[2]))
    /\ ctor_size = OrderConfig[1]
    /\ StoreOnly
    /\ NoGenerator
    /\ inserted = [h \in Hashes |-> None]
    /\ last = [kind |-> "ctor", rel |-> "absent",
               status |-> new_string, rehashed |-> FALSE]
    /\ TSIdle

\* insert(hash, str, length), between two calls of insert_prefix
OrderInsert(hash, str, length) == pc[1] = "idle" /\ Insert(hash, str, length)

\* map_database::insert_prefix up to the call on the bucket: the growth check
\* and the rehash
OrderCall(hash, prefix, str, length) ==
    /\ pc[1] = "idle"
    /\ MayCall(DB)
    /\ ~inserted[prefix].absent
    /\ Len(inserted[prefix].str) + length <= MaxLen
    /\ \E db \in {map_grow(DB)} : SetDB(db) /\ shadow' = db
    /\ op' = [op EXCEPT ![1] =
                 [kind |-> "insert_prefix", hash |-> hash, prefix |-> prefix,
                  str |-> str, length |-> length,
                  rel |-> Rel(hash, inserted[prefix].str \o Bytes(str, length)),
                  rehashed |-> needs_rehash(DB)]]
    /\ tmp' = [tmp EXCEPT ![1] =
                 [prefix_node |-> nullptr, exists |-> FALSE,
                  pos |-> insert_pos_t_prev(nullptr, nullptr)]]
    /\ hist' = [hist EXCEPT ![1] = <<>>]
    /\ pc' = [pc EXCEPT ![1] = insert_prefix_next("call", FALSE)]
    /\ UNCHANGED <<ctor_size, inserted, last, database, mutex_, terminated,
                   calls, expect, xvars>>

\* `auto prefix_node = prefix_bucket.find_node(prefix);`
OrderFindNode ==
    /\ pc[1] = "find_node"
    /\ tmp' = [tmp EXCEPT ![1].prefix_node =
                 find_node(heap, buckets_[bucket_of(DB, op[1].prefix)],
                           op[1].prefix)]
    /\ hist' = [hist EXCEPT ![1] = Append(@, "find_node")]
    /\ pc' = [pc EXCEPT ![1] = insert_prefix_next("find_node", tmp[1].exists)]
    /\ UNCHANGED <<dbvars, ctor_size, inserted, last, database, mutex_,
                   terminated, op, calls, shadow, expect, xvars>>

\* `auto pos = insert_pos(hash);`
OrderInsertPos ==
    /\ pc[1] = "insert_pos"
    /\ \E pos \in {insert_pos(heap, buckets_[bucket_of(DB, op[1].hash)],
                              op[1].hash)} :
          /\ tmp' = [tmp EXCEPT ![1].pos = pos, ![1].exists = pos.exists]
          /\ pc' = [pc EXCEPT ![1] = insert_prefix_next("insert_pos", pos.exists)]
    /\ hist' = [hist EXCEPT ![1] = Append(@, "insert_pos")]
    /\ UNCHANGED <<dbvars, ctor_size, inserted, last, database, mutex_,
                   terminated, op, calls, shadow, expect, xvars>>

\* the rest of the call from the statement at pc[1], and the return of
\* map_database::insert_prefix
OrderFinish(at) ==
    /\ pc[1] = at
    /\ \E r \in {map_count(map_bucket_insert_prefix_at(DB, op[1].hash,
                     tmp[1].prefix_node, op[1].str, op[1].length))} :
          /\ SetDB(r.db)
          /\ inserted' = IF r.status = new_string
                         THEN Learn(r.db, op[1].hash,
                                    inserted[op[1].prefix].str
                                    \o Bytes(op[1].str, op[1].length))
                         ELSE inserted
          /\ last' = [kind |-> "insert_prefix", rel |-> op[1].rel,
                      status |-> r.status, rehashed |-> op[1].rehashed]
    /\ hist' = [hist EXCEPT ![1] = Append(@, at)]
    /\ pc' = [pc EXCEPT ![1] = "idle"]
    /\ UNCHANGED <<ctor_size, database, mutex_, terminated, op, tmp, calls,
                   shadow, expect, xvars>>

\* `if (pos.exists) return strequal(...) ? old_string : collision;`
OrderStrequal == OrderFinish("strequal")

\* operator new, the node's constructor and `pos.prev = n;`
OrderNode == OrderFinish("node")

OrderNext ==
    \/ \E hash \in OrderHashes, str \in Buffers :
          OrderInsert(hash, str, Len(str))
    \/ \E hash \in OrderHashes, prefix \in OrderHashes, str \in Buffers :
          OrderCall(hash, prefix, str, Len(str))
    \/ OrderFindNode
    \/ OrderInsertPos
    \/ OrderStrequal
    \/ OrderNode

SpecOrder == OrderInit /\ [][OrderNext]_vars

\* s is an initial part of t
IsPrefix(s, t) == Len(s) <= Len(t) /\ s = SubSeq(t, 1, Len(s))

BufSize == MaxLen + 1
BufConfig == <<1, <<2, 1>>>>
BufHashes == 0 .. 1
BufChars == {NUL} \cup Chars

BufInit ==
    /\ InitDB(map_database(BufConfig[1], BufConfig[2]))
    /\ ctor_size = BufConfig[1]
    /\ inserted = [h \in Hashes |-> None]
    /\ last = [kind |-> "ctor", rel |-> "absent",
               status |-> new_string, rehashed |-> FALSE]
    /\ TSIdle
    /\ bulk = 0
    /\ ndebug = FALSE
    /\ fault = NoFault
    /\ buffer \in [1 .. BufSize -> BufChars]
    /\ hashed = <<>>
    /\ NoGenerator

\* the caller writes a character of its array
BufWrite(i, c) ==
    /\ buffer[i] # c
    /\ buffer' = [buffer EXCEPT ![i] = c]
    /\ UNCHANGED <<dbvars, ctor_size, inserted, last, tsvars, bulk, ndebug,
                   fault, counter_, gen, fmt, collision_h, generation_error_h,
                   hlog, dummy, hashed>>

\* insert(hash, buffer, length)
BufInsert(hash, length) == Insert(hash, buffer, length)

\* lookup(hash) for a hash inserted before
BufLookup(hash) == Lookup(hash)

BufNext ==
    \/ \E i \in 1 .. BufSize, c \in BufChars : BufWrite(i, c)
    \/ \E hash \in BufHashes, length \in 0 .. MaxLen : BufInsert(hash, length)
    \/ \E hash \in BufHashes : BufLookup(hash)

SpecBuf == BufInit /\ [][BufNext]_vars

\* C16: an insert of (hash, bytes, length) under a hash without entry stores
\* exactly bytes[0:length] and a terminator: the stored string has length
\* `length`, owes nothing to the buffer's characters from index length on,
\* and stays what it is whatever the caller writes to the buffer afterwards.
Claim_C16 ==
    \A h \in BufHashes :
        Present(h) =>
            LET n == DB.heap[map_lookup(DB, h)]
            IN /\ SubSeq(get_str(n), 1, n.length + 1) = inserted[h].str \o <<NUL>>
               /\ Len(CString(get_str(n))) = n.length
               /\ n.length = Len(inserted[h].str)

\* ------------------------------------------------------------ dummy_database
\* dummy_database, called directly or as thread_safe_database<dummy_database>.
\* A thread is at "lock" (constructing the lock_guard), at "call" (in the
\* function of dummy_database) or at "return".  dummy.seen is the string last
\* passed to insert per hash.
disabled == "string_id database disabled"

\* mutant: a repeated hash is reported as old_string
dummy_insert_old(hash, str, length) == old_string

\* dummy_database::insert
dummy_insert(hash, str, length) == new_string

\* dummy_database::insert_prefix
dummy_insert_prefix(hash, prefix, str, length) == new_string

\* dummy_database::lookup
dummy_lookup(hash) == disabled

DummyInit ==
    /\ InitDB(map_database(1, <<1, 1>>))
    /\ ctor_size = 1
    /\ inserted = [h \in Hashes |-> None]
    /\ last = [kind |-> "ctor", rel |-> "absent",
               status |-> new_string, rehashed |-> FALSE]
    /\ database = "dummy_database"
    /\ mutex_ = 0
    /\ terminated = FALSE
    /\ pc = [t \in Threads |-> "idle"]
    /\ op = [t \in Threads |-> NoCall]
    /\ tmp = [t \in Threads |-> NoCall]
    /\ hist = [t \in Threads |-> <<>>]
    /\ calls = 0
    /\ shadow = DB
    /\ expect = [t \in Threads |-> NoCall]
    /\ StoreOnly
    /\ counter_ = 0
    /\ gen = <<>>
    /\ fmt = <<>>
    /\ collision_h = "default_collision_handler"
    /\ generation_error_h = "default_generation_error_handler"
    /\ hlog = <<>>
    /\ dummy \in {[wrapped |-> w, seen |-> [h \in Hashes |-> <<>>]] :
                     w \in BOOLEAN}

\* the calls made on it: any hash, inserted before or not
DummyCalls ==
    {[kind |-> "insert", hash |-> h, str |-> b, length |-> Len(b)] :
        h \in Hashes, b \in TSBuffers}
    \cup
    {[kind |-> "insert_prefix", hash |-> h, prefix |-> p, str |-> b,
      length |-> Len(b)] : h \in Hashes, p \in Hashes, b \in TSBuffers}
    \cup
    {[kind |-> "lookup", hash |-> h] : h \in Hashes}

DummyCall(t, c) ==
    /\ pc[t] = "idle"
    /\ calls < MaxCalls
    /\ pc' = [pc EXCEPT ![t] = IF dummy.wrapped THEN "lock" ELSE "call"]
    /\ op' = [op EXCEPT ![t] = c]
    /\ tmp' = [tmp EXCEPT ![t] = NoCall]
    /\ calls' = calls + 1
    /\ UNCHANGED <<dbvars, ctor_size, inserted, last, database, mutex_,
                   terminated, hist, shadow, expect, xvars>>

\* thread_safe_database: `std::lock_guard<std::mutex> lock(mutex_);`
DummyLock(t) ==
    /\ pc[t] = "lock"
    /\ mutex_lock(mutex_)
    /\ mutex_' = t
    /\ pc' = [pc EXCEPT ![t] = "call"]
    /\ UNCHANGED <<dbvars, ctor_size, inserted, last, database, terminated,
                   op, tmp, hist, calls, shadow, expect, xvars>>

\* the function of dummy_database
DummyRun(t) ==
    /\ pc[t] = "call"
    /\ tmp' = [tmp EXCEPT ![t] =
                 CASE op[t].kind = "insert" ->
                         [status |-> dummy_insert(op[t].hash, op[t].str,
                                                  op[t].length)]
                   [] op[t].kind = "insert_prefix" ->
                         [status |-> dummy_insert_prefix(op[t].hash,
                                        op[t].prefix, op[t].str, op[t].length)]
                   [] op[t].kind = "lookup" ->
                         [str |-> dummy_lookup(op[t].hash)]]
    /\ pc' = [pc EXCEPT ![t] = "return"]
    /\ UNCHANGED <<dbvars, ctor_size, inserted, last, database, mutex_,
                   terminated, op, hist, calls, shadow, expect, xvars>>

\* the call returns; in the adapter ~lock_guard unlocks mutex_
DummyReturn(t) ==
    /\ pc[t] = "return"
    /\ mutex_' = IF dummy.wrapped THEN 0 ELSE mutex_
    /\ pc' = [pc EXCEPT ![t] = "idle"]
    /\ dummy' = IF op[t].kind = "insert"
                THEN [dummy EXCEPT !.seen[op[t].hash] = <<op[t].str>>]
                ELSE dummy
    /\ UNCHANGED <<dbvars, ctor_size, inserted, last, database, terminated,
                   op, tmp, hist, calls, shadow, expect, bulk, ndebug, fault,
                   buffer, counter_, gen, fmt, collision_h,
                   generation_error_h, hlog, hashed>>

DummyNext ==
    \/ \E t \in Threads : \E c \in DummyCalls : DummyCall(t, c)
    \/ \E t \in Threads : DummyLock(t)
    \/ \E t \in Threads : DummyRun(t)
    \/ \E t \in Threads : DummyReturn(t)

SpecDummy == DummyInit /\ [][DummyNext]_vars

\* C15: on a dummy_database, bare or wrapped in thread_safe_database, every
\* insert and insert_prefix returns new_string, also under a hash inserted
\* before with another string, and every lookup returns the sentinel
\* "string_id database disabled", whatever the hash.
Thm_C15 ==
    \A t \in Threads :
        pc[t] = "return" =>
            /\ op[t].kind \in {"insert", "insert_prefix"} =>
                  tmp[t] = [status |-> new_string]
            /\ op[t].kind = "lookup" =>
                  tmp[t] = [str |-> "string_id database disabled"]

\* through the adapter, an insert returns under a hash that was inserted with
\* another string, while a lookup of a hash never inserted has returned
Wit_C15 ==
    /\ dummy.wrapped
    /\ \E t \in Threads, u \in Threads :
          /\ pc[t] = "return" /\ op[t].kind = "insert"
          /\ dummy.seen[op[t].hash] \notin {<<>>, <<op[t].str>>}
          /\ pc[u] = "idle" /\ op[u].kind = "lookup"
          /\ dummy.seen[op[u].hash] = <<>>

\* ------------------------------------------------ the end-to-end bulk load
\* A store constructed with 4 buckets and max_load_factor 1.0 is filled with
\* NStrings strings under pairwise distinct hashes.  bulk says which hash
\* the k-th string gets.
BulkConfig == <<4, <<1, 1>>>>

\* the hash schemes: ascending, descending, scrambled (an odd multiplier
\* modulo a power of two is one-to-one), and strided so that chains are long
BulkSchemes == 1 .. 4

BulkHash(scheme, k) ==
    CASE scheme = 1 -> k
      [] scheme = 2 -> NStrings - k
      [] scheme = 3 -> (k * 37) % 2048
      [] scheme = 4 -> ((k % 8) * 4096) + (k \div 8)

\* the k-th string: the binary digits of k, ten characters
RECURSIVE BulkDigits(_, _)
BulkDigits(k, n) ==
    IF n = 0 THEN <<>>
    ELSE BulkDigits(k \div 2, n - 1) \o <<1 + (k % 2)>>

BulkStr(k) == BulkDigits(k, 10)

BulkInit ==
    /\ InitDB(map_database(BulkConfig[1], BulkConfig[2]))
    /\ ctor_size = BulkConfig[1]
    /\ inserted = [h \in Hashes |-> None]
    /\ last = [kind |-> "ctor", rel |-> "absent",
               status |-> new_string, rehashed |-> FALSE]
    /\ TSIdle
    /\ bulk \in BulkSchemes
    /\ ndebug = FALSE
    /\ fault = NoFault
    /\ buffer = <<>>
    /\ hashed = <<>>
    /\ NoGenerator

\* insert(hash, str, length) of the next string of the load
BulkInsert ==
    /\ no_items_ < NStrings
    /\ \E k \in {no_items_} :
       \E r \in {map_insert(DB, BulkHash(bulk, k), BulkStr(k), Len(BulkStr(k)))} :
          /\ SetDB(r.db)
          /\ last' = [kind |-> "insert", rel |-> "absent",
                      status |-> r.status, rehashed |-> needs_rehash(DB)]
    /\ UNCHANGED <<ctor_size, inserted, tsvars, xvars>>

\* a failed insert ends the load
BulkNext == BulkInsert /\ last.status = new_string

SpecBulk == BulkInit /\ [][BulkNext]_vars

RECURSIVE IsDoubling(_, _)
IsDoubling(n, from) ==
    IF n = from THEN TRUE
    ELSE IF n < from THEN FALSE
    ELSE IsDoubling(n, 2 * from)

\* C11: from 4 buckets and maximum load factor 1.0, once NStrings strings
\* with pairwise distinct hashes are inserted every lookup returns the
\* inserted content and the bucket count is at least 1024; at every moment
\* the bucket count is 4 doubled some number of times, and every insert of
\* the load returned new_string.
Thm_C11 ==
    /\ IsDoubling(no_buckets_, BulkConfig[1])
    /\ last.status = new_string
    /\ no_items_ = NStrings =>
          /\ no_buckets_ >= 1024
          /\ \A k \in 0 .. NStrings - 1 :
                /\ map_lookup(DB, BulkHash(bulk, k)) # aborted
                /\ lookup_string(DB, BulkHash(bulk, k)) = BulkStr(k)

\* the load is complete, the table has doubled eight times and a chain holds
\* two strings
Wit_C11 ==
    /\ no_items_ = NStrings
    /\ no_buckets_ = 1024
    /\ \E i \in 1 .. Len(buckets_) :
          buckets_[i] # nullptr /\ heap[buckets_[i]].next # nullptr

\* ------------------------------------------------ counter_generator: to_string
\* `static constexpr auto max_size = 4 * sizeof(state)`, state being
\* unsigned long long (8 bytes)
max_size == 32

\* the character '0' + d
Digit(d) == 48 + d

\* the counter values and lengths that to_string is applied to
FmtStates  == {0, 7, 9, 10, 42, 99, 100, 12345, 1000000, 2147483647}
FmtLengths == 0 .. max_size + MaxExtra

\* `*--cur = c`: cur is the offset of the pointer from begin; a write below
\* begin is outside the array
put(f, c) ==
    IF f.cur >= 1 /\ f.cur <= max_size
    THEN [f EXCEPT !.cur = f.cur - 1, !.string[f.cur] = c]
    ELSE [f EXCEPT !.cur = f.cur - 1, !.outside = TRUE]

\* the do-while loop that writes the digits of s from the end
RECURSIVE to_string_digits(_)
to_string_digits(f) ==
    LET g == [put(f, Digit(f.s % 10)) EXCEPT !.s = f.s \div 10, !.i = f.i + 1]
    IN IF g.s # 0 THEN to_string_digits(g) ELSE g

\* mutant: the padding loop runs down to begin
RECURSIVE to_string_pad_to_begin(_)
to_string_pad_to_begin(f) ==
    IF f.cur # 0 /\ f.i < f.length
    THEN to_string_pad_to_begin([put(f, Digit(0)) EXCEPT !.i = f.i + 1])
    ELSE f

\* `for (; cur - 1 != begin && i < length; ++i) *--cur = '0';`
RECURSIVE to_string_pad(_)
to_string_pad(f) ==
    IF f.cur - 1 # 0 /\ f.i < f.length
    THEN to_string_pad([put(f, Digit(0)) EXCEPT !.i = f.i + 1])
    ELSE f

\* to_string(s, begin, end, length) with end - begin = max_size: the locals
\* when it returns; the array starts out uninitialised (-1)
to_string(s, length) ==
    LET f0 == [s |-> s, length |-> length, cur |-> max_size, i |-> 0,
               string |-> [k \in 1 .. max_size |-> -1], outside |-> FALSE]
        f1 == to_string_digits(f0)
    IN IF f1.i < length THEN to_string_pad(f1)
       ELSE IF length # 0 /\ f1.i > length
       THEN [f1 EXCEPT !.cur = f1.cur + (f1.i - length)]
       ELSE f1

\* string_info(cur, end - cur): the characters returned
string_info(f) == SubSeq(f.string, f.cur + 1, max_size)

\* no store is used: a map_database that nobody calls
NoStore ==
    /\ InitDB(map_database(1, <<1, 1>>))
    /\ ctor_size = 1
    /\ inserted = [h \in Hashes |-> None]
    /\ last = [kind |-> "ctor", rel |-> "absent",
               status |-> new_string, rehashed |-> FALSE]
    /\ TSIdle
    /\ StoreOnly

\* a caller is about to format the counter value s with the given length
FmtInit ==
    /\ NoStore
    /\ counter_ = 0
    /\ gen = <<>>
    /\ fmt \in {[pc |-> "call", s |-> s, length |-> length] :
                   s \in FmtStates, length \in FmtLengths}
    /\ collision_h = "default_collision_handler"
    /\ generation_error_h = "default_generation_error_handler"
    /\ hlog = <<>>
    /\ dummy = <<>>

\* to_string<STRID_T>(s, string, string + max_size, length)
Format ==
    /\ fmt.pc = "call"
    /\ fmt' = [pc |-> "returned", s |-> fmt.s, length |-> fmt.length,
               f |-> to_string(fmt.s, fmt.length)]
    /\ UNCHANGED <<dbvars, ctor_size, inserted, last, tsvars, bulk, ndebug,
                   fault, buffer, counter_, gen, collision_h,
                   generation_error_h, hlog, dummy, hashed>>

FmtNext == Format

SpecFmt == FmtInit /\ [][FmtNext]_vars

\* the decimal representation of n
RECURSIVE Decimal(_)
Decimal(n) ==
    IF n < 10 THEN <<Digit(n)>> ELSE Decimal(n \div 10) \o <<Digit(n % 10)>>

\* the longest output the padding loop produces
length_limit == max_size - 1

\* what the documentation of counter_generator promises for (s, length)
Formatted(s, length) ==
    LET d == Decimal(s)
        l == IF length > length_limit THEN length_limit ELSE length
    IN IF length = 0 THEN d
       ELSE IF Len(d) < l THEN [k \in 1 .. l - Len(d) |-> Digit(0)] \o d
       ELSE SubSeq(d, Len(d) - l + 1, Len(d))

\* C18: to_string with length 0 gives the plain decimal representation; with
\* length L > 0 it gives exactly L characters, the number left-padded with
\* zeros or cut to its last L digits; above the limit it behaves as at the
\* limit; and it writes nothing outside [begin, end).
Thm_C18 ==
    fmt # <<>> /\ fmt.pc = "returned" =>
        /\ string_info(fmt.f) = Formatted(fmt.s, fmt.length)
        /\ fmt.length = 0 => string_info(fmt.f) = Decimal(fmt.s)
        /\ (fmt.length > 0 /\ fmt.length <= length_limit) =>
              Len(string_info(fmt.f)) = fmt.length
        /\ fmt.length > length_limit =>
              fmt.f = [to_string(fmt.s, length_limit) EXCEPT !.length = fmt.length]
        /\ ~fmt.f.outside
        /\ fmt.f.cur >= 0 /\ fmt.f.cur < max_size

\* a number of several digits was padded with a length above the array's size
Wit_C18 ==
    /\ fmt # <<>> /\ fmt.pc = "returned"
    /\ fmt.s >= 10 /\ fmt.length > max_size
    /\ Len(string_info(fmt.f)) = length_limit

\* --------------------------------------- generators and detail::try_generate
\* try_generate(name, generator, prefix):
\*     auto result = STRID_T(prefix, generator(), status);
\*     for (counter = 1; status != new_string
\*                       && handle_generation_error(counter, name, result); ++counter)
\*         result = STRID_T(prefix, generator(), status);
\*     return result;
\* A thread in it is at "attempt" (about to run STRID_T(prefix, generator(),
\* status)), at "test" (about to evaluate the loop condition), at "return"
\* (about to return result) or at "thrown" (the handler threw).  The status
\* an attempt gets is decided by the database behind STRID_T.

no_tries_generation == 8

insert_status == {collision, new_string, old_string}

\* the generation error handlers: the default one and one a program installed
GenHandlers == {"default_generation_error_handler", "custom_handler"}

\* mutant: the default handler allows one attempt more
default_generation_error_handler_late(no) ==
    IF no > no_tries_generation THEN "throw" ELSE "true"

\* default_generation_error_handler(no, ...)
default_generation_error_handler(no) ==
    IF no >= no_tries_generation THEN "throw" ELSE "true"

\* what the handler h may answer to attempt count no; the installed handler
\* answers as it likes, asking for a further attempt below MaxTries only
handle_generation_error(h, no) ==
    IF h = "default_generation_error_handler"
    THEN {default_generation_error_handler(no)}
    ELSE {"false"} \cup (IF no < MaxTries THEN {"true"} ELSE {})

\* mutant: only a collision makes the loop consult the handler
not_new_string_collision_only(status) == status = collision

\* `status != insert_status::new_string`
not_new_string(status) == status # new_string

\* the values of counter_generator::state, an unsigned type of StateBits bits
Wrap == 2 ^ StateBits

\* mutant: the increment is not stored
fetch_add_lost(c, n) == [old |-> c, new |-> c]

\* std::atomic<state>::fetch_add, behind `counter_++` and `counter_ += n`
fetch_add(c, n) == [old |-> c, new |-> (c + n) % Wrap]

GenIdle ==
    [pc |-> "idle", counter |-> 0, status |-> new_string, attempts |-> 0,
     consults |-> 0, asked |-> 0, answer |-> "none", result |-> <<>>,
     made |-> <<>>]

\* a counter_generator with start value start and length 0, the handler h
GenInitial(start, h) ==
    /\ NoStore
    /\ counter_ = start
    /\ gen = [thr |-> [t \in Threads |-> GenIdle], drawn |-> {}, draws |-> 0,
              total |-> 0, start |-> start, calls |-> 0, length_ |-> 0]
    /\ fmt = <<>>
    /\ collision_h = "default_collision_handler"
    /\ generation_error_h = h
    /\ hlog = <<>>
    /\ dummy = <<>>

\* counter_generator::operator(): the call of try_generate
GenCall(t) ==
    /\ gen.thr[t].pc = "idle"
    /\ gen.calls < MaxGenCalls
    /\ gen' = [gen EXCEPT !.thr[t] = [GenIdle EXCEPT !.pc = "attempt"],
                          !.calls = @ + 1]
    /\ UNCHANGED <<dbvars, ctor_size, inserted, last, tsvars, bulk, ndebug,
                   fault, buffer, counter_, fmt, collision_h,
                   generation_error_h, hlog, dummy, hashed>>

\* `result = STRID_T(prefix, generator(), status)`, the generator being
\* `to_string(counter_++, string, string + max_size, length_)`; in the loop
\* the statement is followed by `++counter`
GenAttempt(t) ==
    /\ gen.thr[t].pc = "attempt"
    /\ \E status \in insert_status, f \in {fetch_add(counter_, 1)} :
       \E made \in {[value |-> f.old, status |-> status,
                     string |-> string_info(to_string(f.old, gen.length_))]} :
          /\ counter_' = f.new
          /\ gen' = [gen EXCEPT
                       !.thr[t] = [@ EXCEPT
                           !.pc = "test", !.status = status,
                           !.result = made, !.made = made,
                           !.attempts = @ + 1,
                           !.counter = IF gen.thr[t].attempts = 0
                                       THEN 1 ELSE @ + 1],
                       !.drawn = @ \cup {f.old},
                       !.draws = @ + 1,
                       !.total = @ + 1]
    /\ UNCHANGED <<dbvars, ctor_size, inserted, last, tsvars, bulk, ndebug,
                   fault, buffer, fmt, collision_h, generation_error_h, hlog,
                   dummy, hashed>>

\* the loop condition: `status != new_string && handle_generation_error(...)`
GenTest(t) ==
    /\ gen.thr[t].pc = "test"
    /\ IF not_new_string(gen.thr[t].status)
       THEN \E a \in handle_generation_error(generation_error_h,
                                             gen.thr[t].counter) :
               gen' = [gen EXCEPT !.thr[t] = [@ EXCEPT
                          !.consults = @ + 1,
                          !.asked = gen.thr[t].counter,
                          !.answer = a,
                          !.pc = CASE a = "true" -> "attempt"
                                   [] a = "false" -> "return"
                                   [] a = "throw" -> "thrown"]]
       ELSE gen' = [gen EXCEPT !.thr[t].pc = "return"]
    /\ UNCHANGED <<dbvars, ctor_size, inserted, last, tsvars, bulk, ndebug,
                   fault, buffer, counter_, fmt, collision_h,
                   generation_error_h, hlog, dummy, hashed>>

\* `return result;`, or generation_error leaves the call
GenReturn(t) ==
    /\ gen.thr[t].pc \in {"return", "thrown"}
    /\ gen' = [gen EXCEPT !.thr[t] = GenIdle]
    /\ UNCHANGED <<dbvars, ctor_size, inserted, last, tsvars, bulk, ndebug,
                   fault, buffer, counter_, fmt, collision_h,
                   generation_error_h, hlog, dummy, hashed>>

\* counter_generator::discard(n): `counter_ += n`
Discard(t, n) ==
    /\ gen.thr[t].pc = "idle"
    /\ gen.calls < MaxGenCalls
    /\ counter_' = fetch_add(counter_, n).new
    /\ gen' = [gen EXCEPT !.total = @ + n, !.calls = @ + 1]
    /\ UNCHANGED <<dbvars, ctor_size, inserted, last, tsvars, bulk, ndebug,
                   fault, buffer, fmt, collision_h, generation_error_h, hlog,
                   dummy, hashed>>

\* one thread calls a generator, under the default or an installed handler
GenInit ==
    \E start \in {0, Wrap - 2}, h \in GenHandlers : GenInitial(start, h)

GenNext ==
    \/ GenCall(1)
    \/ GenAttempt(1)
    \/ GenTest(1)
    \/ GenReturn(1)
    \/ \E n \in 1 .. 2 : Discard(1, n)

SpecGen == GenInit /\ [][GenNext]_vars

\* the threads share one counter_generator
CounterInit ==
    \E start \in {0, Wrap - 2} : GenInitial(start, "custom_handler")

CounterNext ==
    \/ \E t \in Threads : GenCall(t)
    \/ \E t \in Threads : GenAttempt(t)
    \/ \E t \in Threads : GenTest(t)
    \/ \E t \in Threads : GenReturn(t)
    \/ \E t \in Threads, n \in 1 .. 2 : Discard(t, n)

SpecCounter == CounterInit /\ [][CounterNext]_vars

\* ---------------------------- the collision and generation error handlers
\* collision_h and generation_error_h hold the current handler of each kind.
\* hlog.atomic is the build (FOONATHAN_STRING_ID_ATOMIC_HANDLER); without it
\* the functions are not thread safe and one thread calls them.
\* hlog.installed[which] lists the handlers in the order they were stored,
\* hlog.returned[which] the handlers the set calls gave back.
HandlerKinds == {"collision", "generation_error"}

default_handler(which) ==
    IF which = "collision" THEN "default_collision_handler"
    ELSE "default_generation_error_handler"

\* the handlers a program passes: the default one again, or one of its own
HandlersOf(which) ==
    IF which = "collision"
    THEN {"default_collision_handler", "collision_1", "collision_2"}
    ELSE GenHandlers \cup {"custom_handler_2"}

\* collision_h<STORAGE_T> or generation_error_h<STORAGE_T>
handler(which) ==
    IF which = "collision" THEN collision_h ELSE generation_error_h

\* mutant: the exchange hands back the handler it stored
exchange_new(cur, h) == [prev |-> h, now |-> h]

\* std::atomic<T>::exchange(h) on an object holding cur
exchange(cur, h) == [prev |-> cur, now |-> h]

\* the handler of a kind becomes h
Store(which, h) ==
    /\ collision_h' = IF which = "collision" THEN h ELSE collision_h
    /\ generation_error_h' =
          IF which = "generation_error" THEN h ELSE generation_error_h
    /\ hlog' = [hlog EXCEPT !.installed[which] = Append(@, h)]

HandlerInit ==
    /\ InitDB(map_database(1, <<1, 1>>))
    /\ ctor_size = 1
    /\ inserted = [h \in Hashes |-> None]
    /\ last = [kind |-> "ctor", rel |-> "absent",
               status |-> new_string, rehashed |-> FALSE]
    /\ TSIdle
    /\ StoreOnly
    /\ counter_ = 0
    /\ gen = <<>>
    /\ fmt = <<>>
    /\ collision_h = default_handler("collision")
    /\ generation_error_h = default_handler("generation_error")
    /\ hlog \in {[atomic |-> a,
                  installed |-> [w \in HandlerKinds |-> <<>>],
                  returned |-> [w \in HandlerKinds |-> <<>>]] : a \in BOOLEAN}
    /\ dummy = <<>>

\* a thread calls set_collision_handler(h) or set_generation_error_handler(h)
SetHandler(t, which, h) ==
    /\ pc[t] = "idle"
    /\ calls < MaxCalls
    /\ hlog.atomic \/ t = 1
    /\ pc' = [pc EXCEPT ![t] = "set"]
    /\ op' = [op EXCEPT ![t] = [kind |-> "set", which |-> which, h |-> h]]
    /\ tmp' = [tmp EXCEPT ![t] = NoCall]
    /\ calls' = calls + 1
    /\ UNCHANGED <<dbvars, ctor_size, inserted, last, database, mutex_,
                   terminated, hist, shadow, expect, xvars>>

\* atomic build: `return collision_h.exchange(h);`
Exchange(t) ==
    /\ pc[t] = "set"
    /\ hlog.atomic
    /\ \E r \in {exchange(handler(op[t].which), op[t].h)} :
          /\ Store(op[t].which, r.now)
          /\ tmp' = [tmp EXCEPT ![t] = [val |-> r.prev]]
    /\ op' = [op EXCEPT ![t] =
                 [kind |-> "set", which |-> op[t].which, h |-> op[t].h,
                  at |-> Len(hlog.installed[op[t].which]) + 1]]
    /\ pc' = [pc EXCEPT ![t] = "return"]
    /\ UNCHANGED <<dbvars, ctor_size, inserted, last, database, mutex_,
                   terminated, hist, calls, shadow, expect, bulk, ndebug,
                   fault, buffer, counter_, gen, fmt, dummy, hashed>>

\* other build: `auto val = collision_h;`
LoadVal(t) ==
    /\ pc[t] = "set"
    /\ ~hlog.atomic
    /\ tmp' = [tmp EXCEPT ![t] = [val |-> handler(op[t].which)]]
    /\ pc' = [pc EXCEPT ![t] = "assign"]
    /\ UNCHANGED <<dbvars, ctor_size, inserted, last, database, mutex_,
                   terminated, op, hist, calls, shadow, expect, xvars>>

\* other build: `collision_h = h;`
Assign(t) ==
    /\ pc[t] = "assign"
    /\ Store(op[t].which, op[t].h)
    /\ op' = [op EXCEPT ![t] =
                 [kind |-> "set", which |-> op[t].which, h |-> op[t].h,
                  at |-> Len(hlog.installed[op[t].which]) + 1]]
    /\ pc' = [pc EXCEPT ![t] = "return"]
    /\ UNCHANGED <<dbvars, ctor_size, inserted, last, database, mutex_,
                   terminated, tmp, hist, calls, shadow, expect, bulk, ndebug,
                   fault, buffer, counter_, gen, fmt, dummy, hashed>>

\* the set function returns the value it read
SetReturn(t) ==
    /\ pc[t] = "return"
    /\ op[t].kind = "set"
    /\ hlog' = [hlog EXCEPT !.returned[op[t].which] = Append(@, tmp[t].val)]
    /\ pc' = [pc EXCEPT ![t] = "idle"]
    /\ UNCHANGED <<dbvars, ctor_size, inserted, last, database, mutex_,
                   terminated, op, tmp, hist, calls, shadow, expect, bulk,
                   ndebug, fault, buffer, counter_, gen, fmt, collision_h,
                   generation_error_h, dummy, hashed>>

\* get_collision_handler() or get_generation_error_handler()
GetHandler(t, which) ==
    /\ pc[t] = "idle"
    /\ calls < MaxCalls
    /\ hlog.atomic \/ t = 1
    /\ op' = [op EXCEPT ![t] = [kind |-> "get", which |-> which]]
    /\ tmp' = [tmp EXCEPT ![t] = [val |-> handler(which)]]
    /\ calls' = calls + 1
    /\ UNCHANGED <<dbvars, ctor_size, inserted, last, database, mutex_,
                   terminated, pc, hist, shadow, expect, xvars>>

HandlerNext ==
    \/ \E t \in Threads, which \in HandlerKinds :
          \E h \in HandlersOf(which) : SetHandler(t, which, h)
    \/ \E t \in Threads : Exchange(t)
    \/ \E t \in Threads : LoadVal(t)
    \/ \E t \in Threads : Assign(t)
    \/ \E t \in Threads : SetReturn(t)
    \/ \E t \in Threads, which \in HandlerKinds : GetHandler(t, which)

SpecHandler == HandlerInit /\ [][HandlerNext]_vars

\* the handler that was current before the i-th store of a kind
Before(which, i) ==
    IF i = 1 THEN default_handler(which) ELSE hlog.installed[which][i - 1]

\* how often x occurs in the sequence s
Count(s, x) == Cardinality({i \in 1 .. Len(s) : s[i] = x})

\* C19: a set call installs its handler and returns the one that was current
\* before it, the first of them the default handler; with atomic handlers and
\* set calls running in several threads, no handler is returned as previous
\* value more often than it was installed, and a get returns the default
\* handler or one that a call installed.
Thm_C19 ==
    /\ \A which \in HandlerKinds :
          /\ handler(which) = Before(which, Len(hlog.installed[which]) + 1)
          /\ \A x \in HandlersOf(which) :
                Count(hlog.returned[which], x) <=
                    Count(hlog.installed[which], x)
                    + (IF x = default_handler(which) THEN 1 ELSE 0)
    /\ \A t \in Threads :
          /\ pc[t] = "return" =>
                /\ hlog.installed[op[t].which][op[t].at] = op[t].h
                /\ tmp[t].val = Before(op[t].which, op[t].at)
          /\ op[t].kind = "get" =>
                \/ tmp[t].val = default_handler(op[t].which)
                \/ Count(hlog.installed[op[t].which], tmp[t].val) > 0

\* atomic build: two threads have exchanged a collision handler and not yet
\* returned; the second one is about to return the handler of the first, and
\* an earlier call has returned the default handler
Wit_C19 ==
    /\ hlog.atomic
    /\ pc[1] = "return" /\ pc[2] = "return"
    /\ op[1].which = "collision" /\ op[2].which = "collision"
    /\ op[1].h # op[2].h
    /\ tmp[1].val = op[2].h
    /\ hlog.returned["collision"] = <<"default_collision_handler">>

\* -------------------------------------------------------------- sid_hash
\* A uint32_t or uint64_t is the sequence of its bytes, lowest first, so that
\* products stay exact modulo 2^32 and 2^64.  hashed.w is the width of the
\* overload called, hashed.char_signed says whether the build's char is
\* signed, hashed.done lists the calls made: the string, the `hash` argument
\* and the value stored in res.
FNV_32_BASIS == <<197, 157, 28, 129>>                    \* 0x811c9dc5
FNV_32_PRIME == <<147, 1, 0, 1>>                         \* 0x01000193
fnv_basis == <<37, 35, 34, 132, 228, 156, 242, 203>>     \* 14695981039346656037
fnv_prime == <<179, 1, 0, 0, 0, 1, 0, 0>>                \* 1099511628211

\* a ^ b for two bytes
RECURSIVE bxor(_, _)
bxor(a, b) ==
    IF a = 0 /\ b = 0 THEN 0
    ELSE ((a + b) % 2) + 2 * bxor(a \div 2, b \div 2)

\* a ^ b for two words of one width
Xor(a, b) == [i \in 1 .. Len(a) |-> bxor(a[i], b[i])]

\* the conversion of an unsigned word to a type of n bytes
Extend(a, n) == [i \in 1 .. n |-> IF i <= Len(a) THEN a[i] ELSE 0]

\* (T)c for a char c and a T of n bytes: a signed char above 127 is negative
\* and converts to c + 2^(8n) - 256
CharTo(c, n, char_signed) ==
    [i \in 1 .. n |-> IF i = 1 THEN c
                      ELSE IF char_signed /\ c > 127 THEN 255 ELSE 0]

\* the sum of the byte products that make up byte k of a * b, from a[i] on
RECURSIVE Column(_, _, _, _)
Column(a, b, k, i) ==
    IF i > k THEN 0 ELSE a[i] * b[k + 1 - i] + Column(a, b, k, i + 1)

\* the bytes k .. Len(a) of a * b, carry coming in from byte k - 1
RECURSIVE MulFrom(_, _, _, _)
MulFrom(a, b, k, carry) ==
    IF k > Len(a) THEN <<>>
    ELSE LET t == Column(a, b, k, 1) + carry
         IN <<t % 256>> \o MulFrom(a, b, k + 1, t \div 256)

\* a * b in unsigned arithmetic of the width of a
Mul(a, b) == MulFrom(a, b, 1, 0)

\* detail::FNV1aHash<T>(buf, hval, prime)
RECURSIVE FNV1aHash(_, _, _, _)
FNV1aHash(buf, hval, prime, char_signed) ==
    IF Deref(buf) = NUL THEN hval
    ELSE FNV1aHash(Tail(buf),
                   Mul(Xor(hval, CharTo(Head(buf), Len(hval), char_signed)),
                       Extend(FNV_32_PRIME, Len(hval))),
                   prime, char_signed)

\* detail::sid_hash(str, res, hash), the overload for a res of w bits: the
\* value stored in res
sid_hash(str, w, hash, char_signed) ==
    IF w = 64 THEN FNV1aHash(str, fnv_basis, fnv_prime, char_signed)
    ELSE FNV1aHash(str, FNV_32_BASIS, FNV_32_PRIME, char_signed)

\* the default argument of `hash`
default_hash(w) == IF w = 64 THEN fnv_basis ELSE FNV_32_BASIS

MaxHashLen == 2      \* longest string hashed
MaxHashCalls == 3    \* calls of sid_hash
HashChars == {97, 98, 200}
RECURSIVE HashStringsOfLen(_)
HashStringsOfLen(n) ==
    IF n = 0 THEN {<<>>}
    ELSE {<<c>> \o s : c \in HashChars, s \in HashStringsOfLen(n - 1)}
HashStrings == UNION {HashStringsOfLen(n) : n \in 0 .. MaxHashLen}

HashInit ==
    /\ InitDB(map_database(1, <<1, 1>>))
    /\ ctor_size = 1
    /\ inserted = [h \in Hashes |-> None]
    /\ last = [kind |-> "ctor", rel |-> "absent",
               status |-> new_string, rehashed |-> FALSE]
    /\ TSIdle
    /\ bulk = 0
    /\ ndebug = FALSE
    /\ fault = NoFault
    /\ buffer = <<>>
    /\ hashed \in {[w |-> w, char_signed |-> b, done |-> <<>>] :
                      w \in {32, 64}, b \in BOOLEAN}
    /\ NoGenerator

\* sid_hash(str, res) or sid_hash(str, res, hash), hash being the default
\* argument or a value an earlier call stored
SidHash(str, hash) ==
    /\ Len(hashed.done) < MaxHashCalls
    /\ hashed' = [hashed EXCEPT !.done =
                    Append(@, [str |-> str, hash |-> hash,
                               res |-> sid_hash(str, hashed.w, hash,
                                                hashed.char_signed)])]
    /\ UNCHANGED <<dbvars, ctor_size, inserted, last, tsvars, bulk, ndebug,
                   fault, buffer, counter_, gen, fmt, collision_h,
                   generation_error_h, hlog, dummy>>

HashNext ==
    \E str \in HashStrings :
        \E hash \in {default_hash(hashed.w)}
                    \cup {hashed.done[i].res : i \in 1 .. Len(hashed.done)} :
            SidHash(str, hash)

SpecHash == HashInit /\ [][HashNext]_vars

\* FNV-1a of the bytes of a string: from h, each byte is xored in and the
\* result multiplied by prime, in the width of h
RECURSIVE Fnv1a(_, _, _)
Fnv1a(bytes, h, prime) ==
    IF bytes = <<>> THEN h
    ELSE Fnv1a(Tail(bytes),
               Mul(Xor(h, Extend(<<Head(bytes)>>, Len(h))), prime), prime)

\* C26: the 64-bit sid_hash computes FNV-1a 64: from the basis
\* 14695981039346656037, each byte of the string is xored in and the result
\* multiplied by the prime 1099511628211 modulo 2^64; the 32-bit overload
\* does the same with 0x811c9dc5 and 0x01000193 modulo 2^32.
Claim_C26 ==
    \A i \in 1 .. Len(hashed.done) :
        hashed.done[i].hash = default_hash(hashed.w) =>
            hashed.done[i].res =
                IF hashed.w = 64
                THEN Fnv1a(hashed.done[i].str,
                           <<37, 35, 34, 132, 228, 156, 242, 203>>,
                           <<179, 1, 0, 0, 0, 1, 0, 0>>)
                ELSE Fnv1a(hashed.done[i].str,
                           <<197, 157, 28, 129>>, <<147, 1, 0, 1>>)

\* C27: sid_hash honours its seed: for all strings X and S, hashing S with
\* the hash of X as seed gives what hashing X + S from the basis gives.
Claim_C27 ==
    \A i \in 1 .. Len(hashed.done), j \in 1 .. Len(hashed.done),
       k \in 1 .. Len(hashed.done) :
        (/\ hashed.done[i].hash = default_hash(hashed.w)
         /\ hashed.done[j].hash = hashed.done[i].res
         /\ hashed.done[k].hash = default_hash(hashed.w)
         /\ hashed.done[k].str = hashed.done[i].str \o hashed.done[j].str)
        => hashed.done[j].res = hashed.done[k].res

\* ------------------------------------------ properties of the generators
\* C12: under the default handler a call makes at most 8 attempts; the k-th
\* consultation passes the count k; the handler throws exactly at the 8th
\* attempt in a row that is not new_string; and a call only returns an
\* identifier whose status is new_string.
Thm_C12 ==
    generation_error_h = "default_generation_error_handler" =>
        \A t \in Threads :
            LET r == gen.thr[t] IN
            /\ r.attempts <= no_tries_generation
            /\ r.consults >= 1 => r.asked = r.consults
            /\ r.pc = "return" =>
                  r.status = new_string /\ r.result.status = new_string
            /\ r.pc = "thrown" <=>
                  /\ r.attempts = no_tries_generation
                  /\ r.consults = no_tries_generation
                  /\ r.status # new_string

\* the default handler threw after eight attempts, the last an old_string
Wit_C12 ==
    /\ generation_error_h = "default_generation_error_handler"
    /\ gen.thr[1].pc = "thrown"
    /\ gen.thr[1].attempts = 8 /\ gen.thr[1].asked = 8
    /\ gen.thr[1].status = old_string

\* C13: the handler is consulted after every attempt that is not new_string,
\* and only then, with the counts 1, 2, 3, ...; when it answers true exactly
\* one further attempt is made; when it answers false the result of the last
\* attempt is returned as it is without a further generator call; and an
\* attempt that is new_string ends the loop without a consultation.
Thm_C13 ==
    [][\A t \in Threads :
         LET a == gen.thr[t]
             b == gen'.thr[t]
         IN b # a =>
            /\ (b.consults # a.consults /\ b.pc # "idle") =>
                  /\ a.pc = "test" /\ a.status # new_string
                  /\ b.consults = a.consults + 1 /\ b.asked = b.consults
                  /\ b.attempts = a.attempts /\ b.result = a.result
                  /\ counter_' = counter_
            /\ (a.pc = "test" /\ a.status # new_string) =>
                  /\ b.consults = a.consults + 1
                  /\ b.pc = "attempt" <=> b.answer = "true"
                  /\ b.pc = "return" <=> b.answer = "false"
            /\ (a.pc = "test" /\ a.status = new_string) =>
                  b.pc = "return" /\ b.consults = a.consults
                  /\ b.result = a.made
            /\ a.pc = "attempt" =>
                  /\ b.pc = "test" /\ b.attempts = a.attempts + 1
                  /\ a.attempts >= 1 => b.counter = a.counter + 1
            /\ a.pc = "return" =>
                  /\ b = GenIdle /\ counter_' = counter_
                  /\ a.result = a.made]_vars

\* an installed handler answered false to its second consultation, after an
\* old_string
Wit_C13 ==
    /\ generation_error_h = "custom_handler"
    /\ gen.thr[1].pc = "return" /\ gen.thr[1].answer = "false"
    /\ gen.thr[1].consults = 2 /\ gen.thr[1].attempts = 2
    /\ gen.thr[1].status = old_string

\* C17: with several threads in operator() and discard at once, no increment
\* and no discard of the counter is lost, and short of a wrap-around no two
\* attempts draw the same counter value.
Thm_C17 ==
    /\ counter_ = (gen.start + gen.total) % Wrap
    /\ gen.total < Wrap => Cardinality(gen.drawn) = gen.draws

\* two threads are in their second attempt at once and a discard was made
Wit_C17 ==
    /\ \A t \in {1, 2} : gen.thr[t].pc = "test" /\ gen.thr[t].attempts = 2
    /\ gen.total > gen.draws
    /\ gen.total < Wrap

\* ------------------------------------------------- properties of the store
\* the entry the store holds for hash h: <<string>>, or <<>> when the chain of
\* h's bucket has no node with that hash
Entry(db, h) ==
    LET pos == insert_pos(db.heap, db.buckets_[bucket_of(db, h)], h)
    IN IF pos.exists THEN <<CString(get_str(db.heap[pos.cur]))>> ELSE <<>>

\* C1: every pair that was inserted as new_string is returned by lookup with
\* exactly the bytes the caller inserted, whatever rehashes happened since.
Thm_C1 ==
    \A h \in Hashes :
        Present(h) => /\ map_lookup(DB, h) # aborted
                      /\ lookup_string(DB, h) = inserted[h].str

\* all hashes hold strings, the table was rehashed twice, a lookup just ran
Wit_C1 ==
    /\ last.kind = "lookup"
    /\ no_buckets_ >= 4 * ctor_size
    /\ \A h \in Hashes : Present(h) /\ Len(inserted[h].str) > 0
    /\ \A h, g \in Hashes : h # g => inserted[h].str # inserted[g].str

\* C2: an insert under a hash without entry returns new_string; an insert of
\* a different string under a hash that has an entry returns collision and
\* the stored string stays what it was.
Claim_C2 ==
    /\ last.kind = "insert" /\ last.rel = "absent" => last.status = new_string
    /\ last.kind = "insert" /\ last.rel = "different" => last.status = collision
    /\ \A h \in Hashes : Present(h) => lookup_string(DB, h) = inserted[h].str

\* C3: an insert of a pair that is not stored returns new_string and adds one
\* to the item count; a later insert of the same pair returns old_string and
\* leaves the item count alone.
Thm_C3 ==
    [][last'.kind = "insert" =>
         /\ last'.rel = "absent" =>
               last'.status = new_string /\ no_items_' = no_items_ + 1
         /\ last'.rel = "same" =>
               last'.status = old_string /\ no_items_' = no_items_]_vars

\* the same pair was inserted again after other pairs had been inserted
Wit_C3 ==
    /\ last.kind = "insert" /\ last.rel = "same" /\ last.status = old_string
    /\ last.rehashed
    /\ no_items_ = MaxHash + 1

\* C4: where prefix hash p is stored with string X and h has no entry,
\* insert_prefix(h, p, suffix, n) returns the status and stores the string
\* under h that insert(h, X + suffix, len(X) + n) does from the same state.
Thm_C4 ==
    \A h \in Hashes, p \in Hashes :
        (inserted[h].absent /\ Present(p)) =>
            \A suffix \in Buffers :
                LET X == inserted[p].str
                    a == map_insert_prefix(DB, h, p, suffix, Len(suffix))
                    b == map_insert(DB, h, X \o suffix, Len(X) + Len(suffix))
                IN /\ a.status = b.status
                   /\ lookup_string(a.db, h) = lookup_string(b.db, h)
                   /\ a.db.no_items_ = b.db.no_items_

\* an insert_prefix that rehashed just created an entry, and some entry
\* shares its bucket with an entry whose non-empty string it extends
Wit_C4 ==
    /\ last.kind = "insert_prefix" /\ last.status = new_string /\ last.rehashed
    /\ \E h \in Hashes, p \in Hashes :
          /\ h # p /\ Present(h) /\ Present(p)
          /\ bucket_of(DB, h) = bucket_of(DB, p)
          /\ Len(inserted[p].str) > 0
          /\ Len(inserted[h].str) > Len(inserted[p].str)
          /\ SubSeq(inserted[h].str, 1, Len(inserted[p].str)) = inserted[p].str

\* C5: after every insert and insert_prefix the bucket count is at least the
\* constructor's size and item_count / bucket_count <= max_load_factor.
Claim_C5 ==
    last.kind \in {"insert", "insert_prefix"} =>
        /\ no_buckets_ >= ctor_size
        /\ no_items_ * max_load_factor_[2] <= max_load_factor_[1] * no_buckets_

\* C6: the node a lookup returned stays the node lookup returns, with the
\* same characters, across rehashes; no node is freed, and no node is
\* allocated other than one per new entry.
Thm_C6 ==
    /\ \A h \in Hashes :
          Present(h) => /\ map_lookup(DB, h) = inserted[h].addr
                        /\ inserted[h].addr \notin freed
                        /\ get_str(heap[inserted[h].addr]) = inserted[h].mem
                        /\ heap[inserted[h].addr].hash = h
    /\ freed = {}
    /\ Len(heap) = no_items_

\* a rehash has just relinked a chain of entries that existed before it
Wit_C6 ==
    /\ last.rehashed
    /\ no_buckets_ > ctor_size
    /\ \A h \in Hashes : Present(h) /\ inserted[h].addr <= MaxHash + 1
    /\ \E i \in 1 .. Len(buckets_) :
          buckets_[i] # nullptr /\ heap[buckets_[i]].next # nullptr

\* C10: no step removes a stored pair, changes the string of a hash that has
\* an entry, or lowers item_count or bucket_count.
Thm_C10 ==
    [][/\ no_items_' >= no_items_
       /\ no_buckets_' >= no_buckets_
       /\ \/ UNCHANGED <<heap, buckets_, no_buckets_>>
          \/ \A h \in Hashes :
                LET e == Entry(DB, h) IN e # <<>> => Entry(DB, h)' = e]_vars

\* a call that returned collision ran on a full table that had been rehashed
Wit_C10 ==
    /\ last.kind \in {"insert", "insert_prefix"} /\ last.status = collision
    /\ no_items_ = MaxHash + 1
    /\ no_buckets_ > ctor_size

\* the strings a store holds, per hash that has an entry
StoredStrings(db) ==
    [h \in {g \in Hashes : Present(g)} |-> lookup_string(db, h)]

\* C21: from every state where the prefix hash is stored, also when hash has
\* an entry, map_database's insert_prefix returns the status and leaves the
\* strings that basic_database's insert_prefix (lookup, concatenate, insert)
\* does; on a hash that has an entry it returns old_string exactly when the
\* stored string equals prefix string + suffix, and collision otherwise.
Claim_C21 ==
    \A h \in Hashes, p \in Hashes :
        Present(p) =>
            \A suffix \in Buffers :
                LET a == map_insert_prefix(DB, h, p, suffix, Len(suffix))
                    b == basic_insert_prefix(DB, h, p, suffix, Len(suffix))
                IN /\ a.status = b.status
                   /\ StoredStrings(a.db) = StoredStrings(b.db)
                   /\ a.db.no_items_ = b.db.no_items_
                   /\ Present(h) =>
                         a.status = IF inserted[h].str = inserted[p].str \o suffix
                                    THEN old_string ELSE collision

\* the hashes of the chain of bucket i (1-based), in chain order
ChainHashes(i) ==
    LET c == chain(heap, buckets_[i]) IN [k \in 1 .. Len(c) |-> heap[c[k]].hash]

\* C22: in every state the store reaches by insert, insert_prefix and rehash,
\* each bucket chain is strictly increasing by hash and every entry of bucket
\* i has hash mod bucket_count = i.
Thm_C22 ==
    /\ Len(buckets_) = no_buckets_
    /\ \A i \in 1 .. no_buckets_ :
          LET hs == ChainHashes(i)
          IN /\ \A k \in 1 .. Len(hs) - 1 : hs[k] < hs[k + 1]
             /\ \A k \in 1 .. Len(hs) : hs[k] % no_buckets_ = i - 1

\* a call that created nothing has rehashed a full table into more than one
\* bucket, and the rehash put two entries in one chain
Wit_C22 ==
    /\ last.kind \in {"insert", "insert_prefix"}
    /\ last.rehashed /\ last.status # new_string
    /\ no_buckets_ > 1
    /\ \E i \in 1 .. no_buckets_ : Len(ChainHashes(i)) > 1

\* the nodes on the chains of a store
ChainNodes(db) ==
    UNION {LET c == chain(db.heap, db.buckets_[i])
           IN {c[k] : k \in 1 .. Len(c)} : i \in 1 .. Len(db.buckets_)}

\* the (hash, string) pairs a store holds
StoredPairs(db) ==
    {<<db.heap[n].hash, CString(get_str(db.heap[n]))>> : n \in ChainNodes(db)}

\* C23: an insert or insert_prefix that returns old_string or collision
\* creates no entry, and leaves item_count and every stored (hash, string)
\* pair as they were before the call.
Thm_C23 ==
    [][(last'.kind \in {"insert", "insert_prefix"}
        /\ last'.status \in {old_string, collision}) =>
          /\ no_items_' = no_items_
          /\ Len(heap') = Len(heap)
          /\ ChainNodes(DB') = ChainNodes(DB)
          /\ StoredPairs(DB') = StoredPairs(DB)]_vars

\* an insert_prefix under a hash that holds another string has rehashed the
\* table and returned collision
Wit_C23 ==
    /\ last.kind = "insert_prefix"
    /\ last.rel = "different" /\ last.status = collision
    /\ last.rehashed
    /\ no_items_ > 1

\* C24: every insert and insert_prefix runs the growth check first, whatever
\* status it returns later: with item_count + 1 >= threshold on entry the
\* bucket count is doubled exactly once and the threshold becomes
\* floor(new bucket count * max_load_factor); otherwise the call leaves the
\* bucket count and the threshold alone.
Thm_C24 ==
    [][last'.kind \in {"insert", "insert_prefix"} =>
          /\ max_load_factor_' = max_load_factor_
          /\ IF no_items_ + 1 >= next_resize_
             THEN /\ no_buckets_' = 2 * no_buckets_
                  /\ next_resize_' =
                        (no_buckets_' * max_load_factor_[1]) \div max_load_factor_[2]
                  /\ Len(buckets_') = no_buckets_'
             ELSE /\ no_buckets_' = no_buckets_
                  /\ next_resize_' = next_resize_
          /\ last'.rehashed = (no_items_ + 1 >= next_resize_)]_vars

\* an insert of a stored pair has doubled the table a second time, under a
\* load factor below one
Wit_C24 ==
    /\ last.kind = "insert" /\ last.rel = "same" /\ last.status = old_string
    /\ last.rehashed
    /\ no_buckets_ = 4 * ctor_size
    /\ max_load_factor_[1] < max_load_factor_[2]

\* the number of nodes on the chains of buckets 1 .. i
RECURSIVE ChainTotal(_, _)
ChainTotal(db, i) ==
    IF i = 0 THEN 0
    ELSE Len(chain(db.heap, db.buckets_[i])) + ChainTotal(db, i - 1)

\* item_count is the number of nodes, and no two nodes share a chain place or
\* a hash
Counted(db) ==
    /\ ChainTotal(db, Len(db.buckets_)) = db.no_items_
    /\ Cardinality(ChainNodes(db)) = db.no_items_
    /\ Cardinality({db.heap[n].hash : n \in ChainNodes(db)}) = db.no_items_

\* C25: in every state item_count is the number of nodes over all bucket
\* chains and each hash has at most one node in the table; item_count rises
\* by one exactly on the calls that return new_string; a rehash neither loses
\* nor duplicates a node.
Thm_C25 ==
    /\ []Counted(DB)
    /\ [][/\ no_items_' = no_items_
                 + (IF last'.kind \in {"insert", "insert_prefix"}
                       /\ last'.status = new_string THEN 1 ELSE 0)
          /\ ChainNodes(DB) \subseteq ChainNodes(DB')
          /\ ChainNodes(DB') \ ChainNodes(DB) =
                (IF no_items_' > no_items_ THEN {Len(heap) + 1} ELSE {})]_vars

\* a call that created the third entry rehashed the two that were stored
\* into a table of four buckets or more
Wit_C25 ==
    /\ last.kind \in {"insert", "insert_prefix"}
    /\ last.status = new_string /\ last.rehashed
    /\ no_items_ = MaxHash + 1
    /\ no_buckets_ >= 4

\* --------------------------------------------- properties of the adapter
\* the thread is executing a function of the wrapped Database
Inside(t) ==
    pc[t] \in {"grow", "bucket", "count_load", "count_store", "find", "unlock"}

\* every thread made exactly one call, an insert, all of them have returned,
\* and no two of the hashes are equal
OneInsertEach ==
    /\ \A t \in Threads :
          pc[t] = "idle" /\ Len(hist[t]) = 1 /\ hist[t][1].call.kind = "insert"
    /\ \A t, u \in Threads :
          t # u => hist[t][1].call.hash # hist[u][1].call.hash

\* C7: when every thread has inserted one string, under pairwise distinct
\* hashes, every insert returned new_string, the item count is the number of
\* threads and lookup returns for each hash the bytes its thread inserted.
Thm_C7 ==
    OneInsertEach =>
        /\ no_items_ = NThreads
        /\ \A t \in Threads :
              LET c == hist[t][1].call IN
              /\ hist[t][1].ret.status = new_string
              /\ map_lookup(DB, c.hash) # aborted
              /\ lookup_string(DB, c.hash) = Bytes(c.str, c.length)

\* the inserts overlapped and one of them rehashed the table
Wit_C7 ==
    /\ OneInsertEach
    /\ \E t \in Threads : hist[t][1].overlapped
    /\ no_buckets_ > ctor_size

\* C8: a thread that executes inside the wrapped store owns the mutex (so at
\* most one does); whenever the mutex is free the store is what the calls
\* give when run one after another in the order they locked; and every call
\* returns what it returns in that sequential run.
Thm_C8 ==
    /\ \A t \in Threads : Inside(t) => mutex_ = t
    /\ Cardinality({t \in Threads : Inside(t)}) <= 1
    /\ mutex_ = 0 => DB = shadow
    /\ \A t \in Threads :
          (pc[t] = "unlock" /\ op[t].frame = "top") => tmp[t] = expect[t]

\* a lookup waits for the mutex while an insert has linked its node and not
\* yet counted it
Wit_C8 ==
    \E t \in Threads, u \in Threads :
        /\ pc[t] = "count_store" /\ op[t].kind = "insert"
        /\ pc[u] = "lock" /\ op[u].kind = "lookup"
        /\ no_buckets_ > ctor_size

\* the call of thread t can take its next step: the enabling condition of
\* TSLock(t), TSGrow(t), TSBucket(t), TSCountLoad(t), TSCountStore(t),
\* TSFind(t) and TSUnlock(t) together
CanAdvance(t) ==
    /\ ~terminated
    /\ pc[t] # "idle"
    /\ pc[t] = "lock" => mutex_lock(mutex_)

\* C9: no deadlock: while a call is pending, some pending call can take its
\* next step (so that, scheduled fairly, every call returns), whichever
\* Database is wrapped.
Claim_C9 ==
    (\E t \in Threads : pc[t] # "idle") => \E u \in Threads : CanAdvance(u)

====
